---- MODULE Spec2Model ----
(***************************************************************************)
(* Model of the message-processing runtime of telegram-llm-rewriter:       *)
(* the orchestrator loop of run_rewrite_mode_with_shutdown_and_hooks, the  *)
(* per-message pipeline process_message, the DedupeCache, the ContextCache *)
(* and the hot-config channel (src/src/app.rs, src/src/telegram.rs,        *)
(* src/src/context.rs, src/src/config.rs, src/src/llm.rs).                 *)
(*                                                                         *)
(* Strings are sequences of one-character strings, so that trimming is a   *)
(* computation.  Option<T> is <<>> for None and <<x>> for Some(x).         *)
(***************************************************************************)
EXTENDS Integers, Sequences, FiniteSets, TLC

(***************************************************************************)
(* Program constants.                                                      *)
(***************************************************************************)
TELEGRAM_MESSAGE_MAX_CHARS == 4096
DEDUPE_TTL_SECONDS == 300

(***************************************************************************)
(* Bounds of the model.                                                    *)
(***************************************************************************)
\* updates the platform stream delivers in one run
MaxUpdates == 2
\* accepted or failed reload cycles of the config watcher in one run
MaxReloads == 1
\* the clock stops advancing after this many seconds
MaxNow == 301
\* method calls made on a cache in the unit specifications
MaxCalls == 3
\* filesystem events the watched directory produces in one run
MaxEvents == 3
\* largest per-scope capacity / context depth tried
MaxLimit == 2
\* longest text handed to truncate_to_telegram_limit on its own
MaxChars == 4

(***************************************************************************)
(* Option and strings.                                                     *)
(***************************************************************************)
None == <<>>
Some(x) == <<x>>
IsSome(o) == Len(o) = 1
Unwrap(o) == o[1]

Whitespace == {" "}

RECURSIVE TrimStart(_)
TrimStart(s) ==
    IF s # <<>> /\ Head(s) \in Whitespace THEN TrimStart(Tail(s)) ELSE s

RECURSIVE TrimEnd(_)
TrimEnd(s) ==
    IF s # <<>> /\ s[Len(s)] \in Whitespace
    THEN TrimEnd(SubSeq(s, 1, Len(s) - 1))
    ELSE s

\* str::trim
Trim(s) == TrimEnd(TrimStart(s))

Reverse(s) == [i \in 1..Len(s) |-> s[Len(s) + 1 - i]]

\* the function f restricted to the keys in S (HashMap::retain / HashSet::retain)
Restrict(f, S) == [k \in (DOMAIN f) \cap S |-> f[k]]

(***************************************************************************)
(* context.rs                                                              *)
(***************************************************************************)
Me == <<"M", "e">>
Unknown == <<"U", "n", "k", "n", "o", "w", "n">>

ContextMessage(sender_name, text) == [sender_name |-> sender_name, text |-> text]

resolve_sender_name(outgoing, peer_name) ==
    IF outgoing THEN Me
    ELSE IF IsSome(peer_name) /\ Trim(Unwrap(peer_name)) # <<>>
         THEN Unwrap(peer_name)
         ELSE Unknown

(***************************************************************************)
(* ContextScope and ContextCache (app.rs)                                  *)
(***************************************************************************)
ContextScope_collapsed(chat_id, topic_root_id) ==
    [chat_id |-> chat_id, topic_root_id |-> None]

\* equality and hashing are by both fields
ContextScope(chat_id, topic_root_id) ==
    [chat_id |-> chat_id, topic_root_id |-> topic_root_id]

CachedContextMessage(message_id, message) ==
    [message_id |-> message_id, message |-> message]

ContextCache_new(per_chat_limit) ==
    [per_chat_limit |-> per_chat_limit,
     entries |-> <<>>,
     hydrated_scopes |-> {}]

\* the scope's deque, empty when the map has no entry for it
ScopeMessages(cache, scope) ==
    IF scope \in DOMAIN cache.entries THEN cache.entries[scope] ELSE <<>>

PopFrontWhileOver_back(messages, limit) ==
    IF Len(messages) > limit THEN SubSeq(messages, 1, limit) ELSE messages

\* while messages.len() > limit { messages.pop_front(); }
RECURSIVE PopFrontWhileOver(_, _)
PopFrontWhileOver(messages, limit) ==
    IF Len(messages) > limit
    THEN PopFrontWhileOver(Tail(messages), limit)
    ELSE messages

set_per_chat_limit_rehydrating(cache, per_chat_limit) ==
    [cache EXCEPT !.per_chat_limit = per_chat_limit,
                  !.entries = [scope \in DOMAIN @ |->
                                   PopFrontWhileOver(@[scope], per_chat_limit)],
                  !.hydrated_scopes = {}]

set_per_chat_limit(cache, per_chat_limit) ==
    [cache EXCEPT
        !.per_chat_limit = per_chat_limit,
        !.entries = [s \in DOMAIN cache.entries |->
                        PopFrontWhileOver(cache.entries[s], per_chat_limit)]]

retain_chats_keeping_flags(cache, chats) ==
    [cache EXCEPT
        !.entries = Restrict(@, {s \in DOMAIN @ : s.chat_id \in chats})]

retain_chats(cache, chats) ==
    [cache EXCEPT
        !.entries = Restrict(cache.entries,
                             {s \in DOMAIN cache.entries : s.chat_id \in chats}),
        !.hydrated_scopes = {s \in cache.hydrated_scopes : s.chat_id \in chats}]

record_message_tail_only(cache, scope, message_id, message) ==
    LET chat_messages == ScopeMessages(cache, scope)
        pushed == Append(chat_messages, CachedContextMessage(message_id, message))
    IN  IF chat_messages # <<>>
           /\ chat_messages[Len(chat_messages)].message_id = message_id
        THEN [cache EXCEPT !.entries = (scope :> chat_messages) @@ cache.entries]
        ELSE [cache EXCEPT !.entries =
                 (scope :> PopFrontWhileOver(pushed, cache.per_chat_limit))
                 @@ cache.entries]

record_message(cache, scope, message_id, message) ==
    LET chat_messages == ScopeMessages(cache, scope)
        pushed == Append(chat_messages, CachedContextMessage(message_id, message))
    IN  IF \E i \in 1..Len(chat_messages) : chat_messages[i].message_id = message_id
        THEN [cache EXCEPT !.entries = (scope :> chat_messages) @@ cache.entries]
        ELSE [cache EXCEPT !.entries =
                 (scope :> PopFrontWhileOver(pushed, cache.per_chat_limit))
                 @@ cache.entries]

Ids(cached) == [i \in 1..Len(cached) |-> cached[i].message_id]

\* message: [id, text, outgoing, peer_name, ...]
observe_update_message(cache, scope, message) ==
    LET text == Trim(message.text)
        sender_name == resolve_sender_name(message.outgoing, message.peer_name)
    IN  IF text = <<>>
        THEN cache
        ELSE record_message(cache, scope, message.id,
                            ContextMessage(sender_name, text))

\* the loop of recent_before: messages.iter().rev(), from index i down
RECURSIVE RecentLoop(_, _, _, _, _)
RecentLoop(messages, i, message_id, count, recent) ==
    IF i = 0 THEN recent
    ELSE IF messages[i].message_id = message_id
         THEN RecentLoop(messages, i - 1, message_id, count, recent)
         ELSE LET pushed == Append(recent, messages[i].message)
              IN  IF Len(pushed) >= count
                  THEN pushed
                  ELSE RecentLoop(messages, i - 1, message_id, count, pushed)

recent_before_with_itself(cache, scope, message_id, count) ==
    IF count = 0 THEN <<>>
    ELSE LET messages == ScopeMessages(cache, scope)
         IN  Reverse(RecentLoop(messages, Len(messages), 0, count, <<>>))

recent_before_unreversed(cache, scope, message_id, count) ==
    IF count = 0 THEN <<>>
    ELSE LET messages == ScopeMessages(cache, scope)
         IN  RecentLoop(messages, Len(messages), message_id, count, <<>>)

recent_before(cache, scope, message_id, count) ==
    IF count = 0 THEN <<>>
    ELSE LET messages == ScopeMessages(cache, scope)
         IN  Reverse(RecentLoop(messages, Len(messages), message_id, count, <<>>))

should_backfill_le(cache, scope, count, cached_count) ==
    count > 0 /\ cached_count <= count /\ scope \notin cache.hydrated_scopes

should_backfill(cache, scope, count, cached_count) ==
    count > 0 /\ cached_count < count /\ scope \notin cache.hydrated_scopes

mark_hydrated_dropped(cache, scope) == cache

mark_hydrated(cache, scope) ==
    [cache EXCEPT !.hydrated_scopes = @ \cup {scope}]

(***************************************************************************)
(* DedupeCache (app.rs).  Instant::now() is the clock value t, in seconds. *)
(***************************************************************************)
DedupeCache_new(ttl) == [entries |-> <<>>, ttl |-> ttl]

evict_expired_never(cache, t) == cache

\* entries.retain(|_, seen_at| seen_at.elapsed() <= ttl)
evict_expired(cache, t) ==
    [cache EXCEPT !.entries =
        Restrict(cache.entries,
                 {k \in DOMAIN cache.entries : t - cache.entries[k] <= cache.ttl})]

\* contains(&mut self): the cache after the call
DedupeCache_contains_cache(cache, chat_id, message_id, t) ==
    evict_expired(cache, t)

DedupeCache_contains_any_chat(cache, chat_id, message_id, t) ==
    \E k \in DOMAIN evict_expired(cache, t).entries : k[2] = message_id

\* contains(&mut self): the value returned
DedupeCache_contains_any_message(cache, chat_id, message_id, t) ==
    \E key \in DOMAIN evict_expired(cache, t).entries : key[1] = chat_id

DedupeCache_contains(cache, chat_id, message_id, t) ==
    <<chat_id, message_id>> \in DOMAIN evict_expired(cache, t).entries

DedupeCache_insert_dropped(cache, chat_id, message_id, t) == cache

DedupeCache_insert(cache, chat_id, message_id, t) ==
    [cache EXCEPT !.entries = (<<chat_id, message_id>> :> t) @@ cache.entries]

(***************************************************************************)
(* Result<T>                                                               *)
(***************************************************************************)
Ok(v) == [ok |-> TRUE, value |-> v]
Err == [ok |-> FALSE, value |-> <<>>]

(***************************************************************************)
(* config.rs, llm.rs                                                       *)
(***************************************************************************)
RewriteConfig(chats, system_prompt, context_messages) ==
    [chats |-> chats, system_prompt |-> system_prompt,
     context_messages |-> context_messages]

HotConfig(openai_api_key, openai_model, rewrite) ==
    [openai_api_key |-> openai_api_key, openai_model |-> openai_model,
     rewrite |-> rewrite]

validate_openai_config(config) ==
    /\ Trim(config.openai_api_key) # <<>>
    /\ Trim(config.openai_model) # <<>>

validate_rewrite_config(config) ==
    /\ Trim(config.system_prompt) # <<>>
    /\ config.chats # <<>>

\* file: Err when the file cannot be read or parsed, else Ok of the parsed
\* [openai] and [rewrite] sections
load_hot_config(file) ==
    IF ~file.ok THEN Err
    ELSE IF ~validate_openai_config(file.value) THEN Err
    ELSE IF ~validate_rewrite_config(file.value.rewrite) THEN Err
    ELSE Ok(file.value)

\* http_ok: reqwest's client builder succeeded
OpenAiClient_new(api_key, model, http_ok) ==
    IF Trim(api_key) = <<>> THEN Err
    ELSE IF Trim(model) = <<>> THEN Err
    ELSE IF ~http_ok THEN Err
    ELSE Ok([model |-> Trim(model)])

SeqRange(s) == {s[i] : i \in 1..Len(s)}

ActiveRewriteState_from_hot_config(hot_config, http_ok) ==
    LET monitored == SeqRange(hot_config.rewrite.chats)
        llm == OpenAiClient_new(hot_config.openai_api_key,
                                hot_config.openai_model, http_ok)
    IN  IF ~llm.ok THEN Err
        ELSE Ok([hot_config |-> hot_config,
                 monitored_chats |-> monitored,
                 llm |-> llm.value])

(***************************************************************************)
(* telegram.rs                                                             *)
(***************************************************************************)
CONTEXT_SCAN_FACTOR == 20
CONTEXT_SCAN_MIN_MESSAGES == 200

\* message.reply_to: Option of [reply_to_top_id, forum_topic, reply_to_msg_id];
\* message.topic_create: the message's action is TopicCreate
message_topic_root_id(message) ==
    IF IsSome(message.reply_to) /\ IsSome(Unwrap(message.reply_to).reply_to_top_id)
    THEN Unwrap(message.reply_to).reply_to_top_id
    ELSE IF /\ IsSome(message.reply_to)
            /\ Unwrap(message.reply_to).forum_topic
            /\ IsSome(Unwrap(message.reply_to).reply_to_msg_id)
         THEN Unwrap(message.reply_to).reply_to_msg_id
         ELSE IF message.topic_create THEN Some(message.id) ELSE None

is_monitored_chat_any(monitored, chat_id) == TRUE

is_monitored_chat(monitored, chat_id) == chat_id \in monitored

Max(a, b) == IF a >= b THEN a ELSE b

context_scan_limit(count) ==
    Max(count * CONTEXT_SCAN_FACTOR, CONTEXT_SCAN_MIN_MESSAGES)

\* the loop of fetch_context over the platform's history, newest first
RECURSIVE FetchLoop(_, _, _, _, _, _, _)
FetchLoop(history, i, scanned, message_id, count, target_topic_root_id, messages) ==
    IF i > Len(history) THEN messages
    ELSE IF scanned + 1 > context_scan_limit(count) THEN messages
    ELSE LET m == history[i]
             text == Trim(m.text)
             sender_name == resolve_sender_name(m.outgoing, m.peer_name)
             pushed == Append(messages, ContextMessage(sender_name, text))
         IN  IF \/ m.id = message_id
                \/ message_topic_root_id(m) # target_topic_root_id
                \/ text = <<>>
             THEN FetchLoop(history, i + 1, scanned + 1, message_id, count,
                            target_topic_root_id, messages)
             ELSE IF Len(pushed) >= count THEN pushed
                  ELSE FetchLoop(history, i + 1, scanned + 1, message_id, count,
                                 target_topic_root_id, pushed)

fetch_context_uncapped(history, message, count, target_topic_root_id) ==
    IF ~history.ok THEN Err
    ELSE Ok(Reverse(FetchLoop(history.value, 1, 0, message.id,
                              Len(history.value) + 1, target_topic_root_id,
                              <<>>)))

\* history: Err when the platform call fails, else Ok of the messages
fetch_context(history, message, count, target_topic_root_id) ==
    IF count = 0 THEN Ok(<<>>)
    ELSE IF ~history.ok THEN Err
    ELSE Ok(Reverse(FetchLoop(history.value, 1, 0, message.id, count,
                              target_topic_root_id, <<>>)))

(***************************************************************************)
(* app.rs: free functions                                                  *)
(***************************************************************************)
is_relevant_config_event_kind_any(kind) == TRUE

\* app.rs 319-327
is_relevant_config_event_kind(kind) ==
    \/ kind.class = "Modify" /\ kind.detail \in {"Data", "Name", "Any"}
    \/ kind.class = "Create" /\ kind.detail \in {"File", "Any"}
    \/ kind.class = "Remove" /\ kind.detail \in {"File", "Any"}
    \/ kind.class = "Any"

\* Path::canonicalize: the "." components removed and a symbolic link
\* followed; an error when nothing exists at the path.  symlinks maps the
\* links to their targets, existing is the set of the files that exist
RECURSIVE WithoutDots(_)
WithoutDots(path) ==
    IF path = <<>> THEN <<>>
    ELSE IF Head(path) = "." THEN WithoutDots(Tail(path))
    ELSE <<Head(path)>> \o WithoutDots(Tail(path))

canonicalize(path, symlinks, existing) ==
    LET plain == WithoutDots(path)
        resolved == IF plain \in DOMAIN symlinks THEN symlinks[plain] ELSE plain
    IN  IF resolved \in existing THEN Ok(resolved) ELSE Err

path_targets_watched_config_exact(candidate, watched_path, symlinks, existing) ==
    candidate = watched_path

\* app.rs 329-337
path_targets_watched_config(candidate, watched_path, symlinks, existing) ==
    IF candidate = watched_path THEN TRUE
    ELSE LET canonical == canonicalize(candidate, symlinks, existing)
         IN  IF canonical.ok THEN canonical.value = watched_path ELSE FALSE

\* app.rs 339-344
event_targets_watched_config(event, watched_path, symlinks, existing) ==
    \E i \in DOMAIN event.paths :
        path_targets_watched_config(event.paths[i], watched_path, symlinks,
                                    existing)

startup_unix == 100

is_historical_catch_up_message_le(message_unix, startup) ==
    message_unix <= startup

is_historical_catch_up_message(message_unix, startup) == message_unix < startup

normalize_rewrite_override(rewrite_override) ==
    IF IsSome(rewrite_override) /\ Trim(Unwrap(rewrite_override)) # <<>>
    THEN Some(Trim(Unwrap(rewrite_override)))
    ELSE None

\* characters outside the BMP take two UTF-16 code units
Astral == {"E"}
len_utf16_scalar(ch) == 1

len_utf16(ch) == IF ch \in Astral THEN 2 ELSE 1

RECURSIVE TruncateLoop(_, _, _, _)
TruncateLoop(input, i, utf16_count, max_utf16_units) ==
    IF i > Len(input) THEN input
    ELSE IF utf16_count + len_utf16(input[i]) > max_utf16_units
         THEN SubSeq(input, 1, i - 1)
         ELSE TruncateLoop(input, i + 1, utf16_count + len_utf16(input[i]),
                           max_utf16_units)

truncate_to_telegram_limit(input, max_utf16_units) ==
    TruncateLoop(input, 1, 0, max_utf16_units)

(***************************************************************************)
(* State.                                                                  *)
(***************************************************************************)
VARIABLES
    pc,               \* where the orchestrator task is: "select", an await, ...
    msg,              \* the update message process_message is working on
    context,          \* process_message's `context`
    candidate,        \* process_message's `rewritten`, handed to edit_message
    active,           \* ActiveRewriteState
    monitored_chats,  \* TelegramBot.monitored_chats
    dedupe_cache,     \* DedupeCache
    context_cache,    \* ContextCache
    hot_value,        \* value held by the watch channel
    hot_changed,      \* the receiver has not yet seen hot_value
    options,          \* RewriteRuntimeOptions after normalisation
    shutdown_signal,  \* the shutdown future is ready
    now,              \* the clock, seconds
    trace,            \* the RewriteEvents the hooks were given, in order
    updates_left,     \* updates the stream may still deliver
    reloads_left,     \* reload cycles the watcher may still run
    call,             \* unit specifications: the last cache method call
    inserted_at,      \* unit specifications: time of the last insert per key
    edit_calls,       \* history: the edit calls that returned, in order
    hist,             \* history: the last update taken, the fetch and rewrite
                      \* calls, the watcher's reload results
    calls_left,       \* unit specifications: calls still allowed
    config_file,      \* what reading and parsing the config file yields now
    notify_rx,        \* notifications queued in the watcher's mpsc channel
    watcher_pc,       \* where the watcher task is: "recv", "sleep", "load"
    events_left       \* filesystem events the directory may still produce

vars == <<pc, msg, context, candidate, active, monitored_chats, dedupe_cache,
          context_cache, hot_value, hot_changed, options, shutdown_signal, now,
          trace, updates_left, reloads_left, call, inserted_at, edit_calls,
          hist, calls_left, config_file, notify_rx, watcher_pc, events_left>>

\* the watcher task with its queue, and the file it reloads
watcherVars == <<config_file, notify_rx, watcher_pc, events_left>>

runtimeVars == <<pc, msg, context, candidate, active, monitored_chats,
                 hot_value, hot_changed, options, shutdown_signal, trace,
                 updates_left, reloads_left, edit_calls, hist, watcherVars>>

(***************************************************************************)
(* Inputs.                                                                 *)
(***************************************************************************)
Chats == {1, 2}
TopicRoots == {None, Some(7)}
MsgIds == {1, 2}
RawTexts == {<<" ">>, <<" ", "a">>, <<"b", " ">>}
\* the clock's steps between two method calls, and between two steps of the loop
TickSteps == {DEDUPE_TTL_SECONDS \div 2, DEDUPE_TTL_SECONDS \div 2 + 1}
ClockSteps == {DEDUPE_TTL_SECONDS, DEDUPE_TTL_SECONDS + 1}

NoMsg == [id |-> 0, chat_id |-> 0, topic_root_id |-> None, text |-> <<>>,
          outgoing |-> FALSE, peer_name |-> None, date |-> 0]

NoCall == [op |-> "none", scope |-> ContextScope(0, None), chat_id |-> 0,
           message_id |-> 0, text |-> <<>>, count |-> 0, cached_count |-> 0,
           chats |-> {}, at |-> 0, before_ids |-> <<>>,
           result_seq |-> <<>>, result_bool |-> FALSE,
           \* history: the call before was the same call and returned true
           repeat_of_true |-> FALSE]

\* handled: the last update next_update returned; fetch_calls: per scope, the
\* ids of the messages a fetch_context call was started for since the scope's
\* chat was last dropped from the monitored set; rewrite_calls: the llm.rewrite
\* calls that returned; reloads: the files the watcher found and what
\* load_hot_config returned for them, with what became of the channel;
\* swaps: the policies the hot-config branch read, and whether
\* from_hot_config built them; fetched: what the last fetch_context call
\* that returned returned, with the context held before; closes: what
\* bot.shutdown returned; event: the last filesystem event the watcher's
\* callback was given; notified: the notifications the callback has queued;
\* unloaded: one was queued after the watcher last began to load the file
NoHistory ==
    [handled |-> [kind |-> "none", message |-> NoMsg],
     fetch_calls |-> <<>>, rewrite_calls |-> <<>>, reloads |-> <<>>,
     swaps |-> <<>>, fetched |-> <<>>, closes |-> <<>>,
     event |-> <<>>, notified |-> 0, unloaded |-> FALSE]

\* the orchestrator is not running: only cache methods are called
Parked ==
    /\ pc = "parked"
    /\ msg = NoMsg
    /\ context = <<>>
    /\ candidate = <<>>
    /\ active = <<>>
    /\ monitored_chats = {}
    /\ hot_value = <<>>
    /\ hot_changed = FALSE
    /\ options = <<>>
    /\ shutdown_signal = FALSE
    /\ trace = <<>>
    /\ updates_left = 0
    /\ reloads_left = 0
    /\ edit_calls = <<>>
    /\ hist = NoHistory
    /\ config_file = <<>>
    /\ notify_rx = 0
    /\ watcher_pc = "parked"
    /\ events_left = 0

(***************************************************************************)
(* SpecCache: any sequence of method calls on one ContextCache.            *)
(***************************************************************************)
CacheScopes ==
    {ContextScope(1, None), ContextScope(1, Some(7)), ContextScope(2, None)}
CacheMsgIds == {1, 2}
\* ids asked about: the cached ones and one that is never cached
QueryMsgIds == CacheMsgIds \cup {3}
CacheMessages ==
    [id : CacheMsgIds, text : RawTexts, outgoing : {TRUE}, peer_name : {None}]

InitCache ==
    /\ Parked
    /\ \E n \in 0..MaxLimit : context_cache = ContextCache_new(n)
    /\ dedupe_cache = DedupeCache_new(DEDUPE_TTL_SECONDS)
    /\ now = 0
    /\ call = NoCall
    /\ inserted_at = <<>>
    /\ calls_left = MaxCalls

CacheFrame ==
    /\ calls_left > 0
    /\ calls_left' = calls_left - 1
    /\ UNCHANGED <<runtimeVars, dedupe_cache, now, inserted_at>>

CacheObserve ==
    \E scope \in CacheScopes, message \in CacheMessages :
        /\ CacheFrame
        /\ context_cache' = observe_update_message(context_cache, scope, message)
        /\ call' = [NoCall EXCEPT !.op = "observe", !.scope = scope,
                                  !.message_id = message.id,
                                  !.text = message.text,
                                  !.before_ids =
                                      Ids(ScopeMessages(context_cache, scope))]

CacheSetCapacity ==
    \E n \in 0..MaxLimit :
        /\ CacheFrame
        /\ context_cache' = set_per_chat_limit(context_cache, n)
        /\ call' = [NoCall EXCEPT !.op = "set_capacity", !.count = n]

CacheRetainScopes ==
    \E chats \in SUBSET Chats :
        /\ CacheFrame
        /\ context_cache' = retain_chats(context_cache, chats)
        /\ call' = [NoCall EXCEPT !.op = "retain_scopes", !.chats = chats]

CacheMarkHydrated ==
    \E scope \in CacheScopes :
        /\ CacheFrame
        /\ context_cache' = mark_hydrated(context_cache, scope)
        /\ call' = [NoCall EXCEPT !.op = "mark_hydrated", !.scope = scope]

CacheRecentBefore ==
    \E scope \in CacheScopes, message_id \in QueryMsgIds, count \in 0..MaxLimit :
        /\ CacheFrame
        /\ UNCHANGED context_cache
        /\ call' = [NoCall EXCEPT
                       !.op = "recent_before", !.scope = scope,
                       !.message_id = message_id, !.count = count,
                       !.result_seq =
                           recent_before(context_cache, scope, message_id, count)]

CacheShouldBackfill ==
    \E scope \in CacheScopes, count \in 0..MaxLimit, cached_count \in 0..MaxLimit :
        /\ CacheFrame
        /\ UNCHANGED context_cache
        /\ call' = [NoCall EXCEPT
                       !.op = "should_backfill", !.scope = scope,
                       !.count = count, !.cached_count = cached_count,
                       !.result_bool =
                           should_backfill(context_cache, scope, count, cached_count),
                       !.repeat_of_true =
                           /\ call.op = "should_backfill"
                           /\ call.scope = scope
                           /\ call.count = count
                           /\ call.cached_count = cached_count
                           /\ call.result_bool]

NextCache ==
    \/ CacheObserve
    \/ CacheSetCapacity
    \/ CacheRetainScopes
    \/ CacheMarkHydrated
    \/ CacheRecentBefore
    \/ CacheShouldBackfill

SpecCache == InitCache /\ [][NextCache]_vars

(***************************************************************************)
(* SpecDedupe: any sequence of method calls on one DedupeCache, with the   *)
(* clock advancing between the calls.                                      *)
(***************************************************************************)
InitDedupe ==
    /\ Parked
    /\ context_cache = ContextCache_new(0)
    /\ dedupe_cache = DedupeCache_new(DEDUPE_TTL_SECONDS)
    /\ now = 0
    /\ call = NoCall
    /\ inserted_at = <<>>
    /\ calls_left = MaxCalls

DedupeTick ==
    \E d \in TickSteps :
        /\ now + d <= MaxNow
        /\ now' = now + d
        /\ UNCHANGED <<runtimeVars, dedupe_cache, context_cache, call,
                       inserted_at, calls_left>>

DedupeContains ==
    \E chat_id \in Chats, message_id \in MsgIds :
        /\ calls_left > 0
        /\ calls_left' = calls_left - 1
        /\ dedupe_cache' =
               DedupeCache_contains_cache(dedupe_cache, chat_id, message_id, now)
        /\ call' = [NoCall EXCEPT
                       !.op = "contains", !.chat_id = chat_id,
                       !.message_id = message_id, !.at = now,
                       !.result_bool =
                           DedupeCache_contains(dedupe_cache, chat_id,
                                                message_id, now)]
        /\ UNCHANGED <<runtimeVars, context_cache, now, inserted_at>>

DedupeInsert ==
    \E chat_id \in Chats, message_id \in MsgIds :
        /\ calls_left > 0
        /\ calls_left' = calls_left - 1
        /\ dedupe_cache' = DedupeCache_insert(dedupe_cache, chat_id, message_id, now)
        /\ inserted_at' = (<<chat_id, message_id>> :> now) @@ inserted_at
        /\ call' = [NoCall EXCEPT !.op = "insert", !.chat_id = chat_id,
                                  !.message_id = message_id, !.at = now]
        /\ UNCHANGED <<runtimeVars, context_cache, now>>

NextDedupe ==
    \/ DedupeTick
    \/ DedupeContains
    \/ DedupeInsert

SpecDedupe == InitDedupe /\ [][NextDedupe]_vars

(***************************************************************************)
(* SpecTruncate: truncate_to_telegram_limit called on its own, on texts of *)
(* one-unit and two-unit characters.                                       *)
(***************************************************************************)
TruncateInputs ==
    UNION {[1..n -> {"a", "E"}] : n \in 0..MaxChars}

InitTruncate ==
    /\ Parked
    /\ context_cache = ContextCache_new(0)
    /\ dedupe_cache = DedupeCache_new(DEDUPE_TTL_SECONDS)
    /\ now = 0
    /\ call = NoCall
    /\ inserted_at = <<>>
    /\ calls_left = 0

Truncate ==
    \E input \in TruncateInputs, max_utf16_units \in 0..(2 * MaxChars) :
        /\ call' = [NoCall EXCEPT
                       !.op = "truncate", !.text = input,
                       !.count = max_utf16_units,
                       !.result_seq =
                           truncate_to_telegram_limit(input, max_utf16_units)]
        /\ UNCHANGED <<runtimeVars, dedupe_cache, context_cache, now,
                       inserted_at, calls_left>>

NextTruncate == Truncate

SpecTruncate == InitTruncate /\ [][NextTruncate]_vars

(***************************************************************************)
(* Helpers of the properties.                                              *)
(***************************************************************************)
Min(a, b) == IF a <= b THEN a ELSE b

IsSuffix(a, b) ==
    /\ Len(a) <= Len(b)
    /\ a = SubSeq(b, Len(b) - Len(a) + 1, Len(b))

\* the last n elements of s (all of s when it is shorter)
LastN(s, n) == SubSeq(s, Len(s) - Min(Len(s), n) + 1, Len(s))

Messages(cached) == [i \in 1..Len(cached) |-> cached[i].message]

WithoutId(cached, message_id) ==
    LET Other(e) == e.message_id # message_id IN SelectSeq(cached, Other)

Positions(cached, message_id) ==
    {i \in 1..Len(cached) : cached[i].message_id = message_id}

Expired(cache, t) ==
    {k \in DOMAIN cache.entries : t - cache.entries[k] > DEDUPE_TTL_SECONDS}

(***************************************************************************)
(* Properties of DedupeCache, under SpecDedupe.                            *)
(***************************************************************************)
\* C3: contains(c, m) returns true exactly when insert(c, m) was called and
\* no more than the TTL has elapsed since the most recent insert(c, m); in
\* particular an insert under another chat id or message id never makes it
\* true.
C3_ContainsIffInsertedWithinTtl ==
    call.op = "contains" =>
        LET k == <<call.chat_id, call.message_id>>
        IN  call.result_bool =
                (/\ k \in DOMAIN inserted_at
                 /\ call.at - inserted_at[k] <= DEDUPE_TTL_SECONDS)

\* contains returned false for a pair that was inserted, the TTL having
\* elapsed, while the same message id under the other chat is still live
C3_Witness ==
    /\ call.op = "contains"
    /\ ~call.result_bool
    /\ <<call.chat_id, call.message_id>> \in DOMAIN inserted_at
    /\ \E c \in Chats :
          /\ c # call.chat_id
          /\ <<c, call.message_id>> \in DOMAIN dedupe_cache.entries

\* C4 as stated: after any contains or insert call returns, the cache holds
\* no entry older than the TTL.
C4_NoExpiredAfterContainsOrInsert ==
    call.op \in {"contains", "insert"} => Expired(dedupe_cache, call.at) = {}

\* C4 amended: after any contains call returns, the cache holds no entry
\* older than the TTL (insert does not evict).
C4_NoExpiredAfterContains ==
    call.op = "contains" => Expired(dedupe_cache, call.at) = {}

\* a contains call has physically removed an expired entry
C4_Witness ==
    /\ call.op = "contains"
    /\ \E k \in DOMAIN inserted_at :
          /\ k \notin DOMAIN dedupe_cache.entries
          /\ call.at - inserted_at[k] > DEDUPE_TTL_SECONDS

(***************************************************************************)
(* Properties of ContextCache, under SpecCache.                            *)
(***************************************************************************)
UniqueIds ==
    \A s \in DOMAIN context_cache.entries :
        \A i, j \in 1..Len(context_cache.entries[s]) :
            i # j => context_cache.entries[s][i].message_id
                        # context_cache.entries[s][j].message_id

ObserveOfPresentIdIsNoOp ==
    (/\ call'.op = "observe"
     /\ Positions(ScopeMessages(context_cache, call'.scope), call'.message_id) # {})
    => context_cache' = context_cache

\* C5: message ids are unique within every scope after any sequence of
\* observe, set_capacity and retain_scopes; observing an id present anywhere
\* in the scope's sequence leaves the cache as it was.
C5_UniqueIdsAndDuplicateNoOp ==
    []UniqueIds /\ [][ObserveOfPresentIdIsNoOp]_vars

\* an id that is not at the tail was observed again with another text
C5_Witness ==
    /\ call.op = "observe"
    /\ Trim(call.text) # <<>>
    /\ LET cached == ScopeMessages(context_cache, call.scope)
       IN  \E i \in 1..(Len(cached) - 1) :
              /\ cached[i].message_id = call.message_id
              /\ cached[i].message.text # Trim(call.text)

WithinCap ==
    \A s \in DOMAIN context_cache.entries :
        Len(context_cache.entries[s]) <= context_cache.per_chat_limit

\* the sequence kept is the newest suffix, as long as the cap allows
KeptNewest(new, old, cap) ==
    /\ IsSuffix(new, old)
    /\ Len(new) = Min(Len(old), cap)

EvictsFromFront ==
    /\ call'.op = "set_capacity" =>
          /\ DOMAIN context_cache'.entries = DOMAIN context_cache.entries
          /\ \A s \in DOMAIN context_cache.entries :
                KeptNewest(context_cache'.entries[s], context_cache.entries[s],
                           context_cache'.per_chat_limit)
    /\ call'.op = "observe" =>
          LET old == ScopeMessages(context_cache, call'.scope)
              new == ScopeMessages(context_cache', call'.scope)
              appended ==
                  Append(old, CachedContextMessage(call'.message_id,
                                  ContextMessage(Me, Trim(call'.text))))
          IN  \/ new = old
              \/ KeptNewest(new, appended, context_cache'.per_chat_limit)

\* C6: after every observe and every set_capacity(n) each scope's sequence is
\* no longer than the cap, and what was removed was removed from the front:
\* the sequence kept is the newest suffix of the previous one, order unchanged.
C6_CapacityBoundOldestFirst ==
    []WithinCap /\ [][EvictsFromFront]_vars

\* an observe on a full scope has pushed the oldest entry out
C6_Witness ==
    /\ call.op = "observe"
    /\ context_cache.per_chat_limit >= 1
    /\ Len(call.before_ids) = context_cache.per_chat_limit
    /\ \A i \in 1..Len(call.before_ids) : call.before_ids[i] # call.message_id
    /\ LET cached == ScopeMessages(context_cache, call.scope)
       IN  /\ Len(cached) = context_cache.per_chat_limit
           /\ cached[Len(cached)].message_id = call.message_id
           /\ Ids(cached) # call.before_ids

\* C7: recent_before(scope, id, n) is the last n (or fewer) entries of the
\* scope's sequence with the entries of that id left out, oldest first: it
\* never includes an entry whose id is id and has at most n entries.
C7_RecentBeforeExcludesIdAtMostNInOrder ==
    call.op = "recent_before" =>
        /\ call.result_seq =
               Messages(LastN(WithoutId(ScopeMessages(context_cache, call.scope),
                                        call.message_id),
                              call.count))
        /\ Len(call.result_seq) <= call.count

\* two entries were returned, or one was returned while the id asked about
\* is cached in the scope
C7_Witness ==
    /\ call.op = "recent_before"
    /\ Len(call.result_seq) = call.count
    /\ call.count >= 1
    /\ Positions(ScopeMessages(context_cache, call.scope), call.message_id) # {}
    /\ Len(ScopeMessages(context_cache, call.scope)) = 2

\* C8 as stated: when message_id is present in the scope's sequence, only
\* entries positioned before it are returned.
C8_RecentBeforeOnlyPreceding ==
    call.op = "recent_before" =>
        LET cached == ScopeMessages(context_cache, call.scope)
        IN  \A p \in Positions(cached, call.message_id) :
                call.result_seq =
                    Messages(LastN(SubSeq(cached, 1, p - 1), call.count))

ScopeUntouched(other) ==
    /\ ScopeMessages(context_cache', other) = ScopeMessages(context_cache, other)
    /\ (other \in DOMAIN context_cache'.entries)
           = (other \in DOMAIN context_cache.entries)
    /\ (other \in context_cache'.hydrated_scopes)
           = (other \in context_cache.hydrated_scopes)
    /\ \A message_id \in QueryMsgIds, count \in 0..MaxLimit :
          recent_before(context_cache', other, message_id, count)
              = recent_before(context_cache, other, message_id, count)
    /\ \A count \in 0..MaxLimit, cached_count \in 0..MaxLimit :
          should_backfill(context_cache', other, count, cached_count)
              = should_backfill(context_cache, other, count, cached_count)

OtherTopicsUntouched ==
    \A chat_id \in Chats, t1 \in TopicRoots, t2 \in TopicRoots :
        (/\ t1 # t2
         /\ call'.op \in {"observe", "mark_hydrated"}
         /\ call'.scope = ContextScope(chat_id, t1))
        => ScopeUntouched(ContextScope(chat_id, t2))

\* C9: observe and mark_hydrated on one scope leave the sequence and the
\* hydration flag of a scope with the same conversation and another topic
\* root unchanged, and with them the results of recent_before and
\* should_backfill on it.
C9_ScopeIsolation == [][OtherTopicsUntouched]_vars

\* a topic was marked hydrated while the conversation's other scope holds
\* messages and is not hydrated
C9_Witness ==
    /\ call.op = "mark_hydrated"
    /\ \E chat_id \in Chats, t1 \in TopicRoots, t2 \in TopicRoots :
          /\ t1 # t2
          /\ call.scope = ContextScope(chat_id, t1)
          /\ ScopeMessages(context_cache, ContextScope(chat_id, t1)) # <<>>
          /\ ScopeMessages(context_cache, ContextScope(chat_id, t2)) # <<>>
          /\ ContextScope(chat_id, t2) \notin context_cache.hydrated_scopes

ShouldBackfillResult ==
    call.op = "should_backfill" =>
        call.result_bool =
            (/\ call.count > 0
             /\ call.cached_count < call.count
             /\ call.scope \notin context_cache.hydrated_scopes)

ShouldBackfillReadsOnly ==
    call'.op = "should_backfill" => context_cache' = context_cache

\* C10: should_backfill(scope, requested, cached) is true iff requested > 0,
\* cached < requested and the scope is not marked hydrated, and the call
\* leaves the cache as it was.
C10_ShouldBackfillIff ==
    []ShouldBackfillResult /\ [][ShouldBackfillReadsOnly]_vars

\* false only because the scope is hydrated; and true at the boundary
C10_Witness ==
    /\ call.op = "should_backfill"
    /\ ~call.result_bool
    /\ call.count > 0
    /\ call.cached_count < call.count
    /\ call.scope \in context_cache.hydrated_scopes

\* C11 as stated: a should_backfill call that repeats, with the same
\* arguments, a call that returned true does not return true again.
C11_ShouldBackfillTrueOnce ==
    (call.op = "should_backfill" /\ call.repeat_of_true) => ~call.result_bool

RepeatOfTrueIsTrue ==
    (call.op = "should_backfill" /\ call.repeat_of_true) => call.result_bool

\* the hydration flags change only by mark_hydrated, which sets the flag of
\* its scope, and by retain_scopes, which clears those of dropped chats
HydrationFlagSteps ==
    context_cache'.hydrated_scopes =
        IF call'.op = "mark_hydrated"
        THEN context_cache.hydrated_scopes \cup {call'.scope}
        ELSE IF call'.op = "retain_scopes"
        THEN {scope \in context_cache.hydrated_scopes :
                  scope.chat_id \in call'.chats}
        ELSE context_cache.hydrated_scopes

\* a should_backfill call on a scope whose flag is set returns false
FalseWhileHydrated ==
    (call'.op = "should_backfill"
        /\ call'.scope \in context_cache.hydrated_scopes) => ~call'.result_bool

\* C11 amended: should_backfill never sets the hydration flag, so a call that
\* repeats a call that returned true returns true again; it returns false for
\* a scope from the mark_hydrated call on that scope until a retain_scopes
\* call that drops the scope's conversation, the only call that clears flags.
C11_ShouldBackfillTrueUntilMarked ==
    []RepeatOfTrueIsTrue /\ [][HydrationFlagSteps /\ FalseWhileHydrated]_vars

\* should_backfill returned true twice in a row for the same arguments
C11_Witness ==
    /\ call.op = "should_backfill"
    /\ call.repeat_of_true
    /\ call.result_bool
    /\ call.scope \notin context_cache.hydrated_scopes

(***************************************************************************)
(* Spec: the orchestrator of run_rewrite_mode_with_shutdown_and_hooks with *)
(* its environment: the update stream, the platform and model calls, the   *)
(* config watcher's reload and the clock; SpecShutdown adds the shutdown   *)
(* signal.                                                                 *)
(***************************************************************************)
ApiKey == <<"k">>
Model == <<"m">>
Prompt == <<"p">>
ChatLists == {<<1>>, <<1, 2>>}

\* what load_hot_config can return Ok for
HotConfigs ==
    {HotConfig(ApiKey, Model, RewriteConfig(chats, Prompt, n)) :
        chats \in ChatLists, n \in 0..MaxLimit}

\* the config file as the watcher may find it
ConfigFiles ==
    {Err}
    \cup {Ok(hc) : hc \in HotConfigs}
    \cup {Ok(HotConfig(<<" ">>, Model, RewriteConfig(<<1>>, Prompt, 1))),
          Ok(HotConfig(ApiKey, Model, RewriteConfig(<<>>, Prompt, 1)))}

RawOverrides == {None, Some(<<" ">>), Some(<<" ", "c">>)}

ReplyHeader(reply_to_top_id, forum_topic, reply_to_msg_id) ==
    [reply_to_top_id |-> reply_to_top_id, forum_topic |-> forum_topic,
     reply_to_msg_id |-> reply_to_msg_id]

ReplyHeaders ==
    {None,
     Some(ReplyHeader(Some(7), TRUE, Some(9))),
     Some(ReplyHeader(None, TRUE, Some(7))),
     Some(ReplyHeader(None, FALSE, Some(9)))}

\* notify::EventKind, the inner kinds of Data, Name, Metadata and Access
\* left out
EventKind(class, detail) == [class |-> class, detail |-> detail]

EventKinds ==
    {EventKind("Any", "Any"), EventKind("Other", "Any"),
     EventKind("Access", "Any")}
    \cup {EventKind("Create", d) : d \in {"Any", "File", "Folder", "Other"}}
    \cup {EventKind("Modify", d) :
              d \in {"Any", "Data", "Metadata", "Name", "Other"}}
    \cup {EventKind("Remove", d) : d \in {"Any", "File", "Folder", "Other"}}

\* paths are sequences of components; the watched file is /d/c, /d/l is a
\* symbolic link to it, /d/o is another file and /d/x does not exist
WatchedPath == <<"d", "c">>
Symlinks == (<<"d", "l">> :> WatchedPath)
ExistingPaths == {WatchedPath, <<"d", "o">>}

EventPaths ==
    {WatchedPath, <<"d", ".", "c">>, <<"d", "l">>, <<"d", "o">>, <<"d", "x">>}

\* notify::Event: its kind and its paths
FsEvents ==
    [kind : EventKinds,
     paths : {<<>>} \cup {<<p>> : p \in EventPaths}
                    \cup {<<<<"d", "o">>, p>> : p \in EventPaths}]

PeerNames == {Some(<<"B">>)}
UpdateTexts == {<<" ">>, <<" ", "a">>}
Dates == {startup_unix - 1, startup_unix}

\* text messages outside any topic, sent after startup
UpdateMessages ==
    [id : MsgIds, chat_id : Chats, reply_to : {None}, topic_create : {FALSE},
     text : UpdateTexts, outgoing : BOOLEAN, peer_name : PeerNames,
     date : {startup_unix}]

OtherUpdateKinds == {"message_edited", "message_deleted"}

HistoryMessage(id, reply_to, text, outgoing, peer_name) ==
    [id |-> id, reply_to |-> reply_to, topic_create |-> FALSE, text |-> text,
     outgoing |-> outgoing, peer_name |-> peer_name]

\* what iter_messages can yield, newest first
Histories ==
    {Err,
     Ok(<<>>),
     Ok(<<HistoryMessage(2, None, <<"b", " ">>, TRUE, None),
          HistoryMessage(6, Some(ReplyHeader(Some(7), TRUE, Some(9))),
                         <<"b", " ">>, FALSE, Some(<<"B">>)),
          HistoryMessage(5, None, <<" ">>, FALSE, None),
          HistoryMessage(4, None, <<" ", "a">>, FALSE, Some(<<"B">>)),
          HistoryMessage(3, Some(ReplyHeader(None, TRUE, Some(7))),
                         <<" ", "a">>, TRUE, None),
          HistoryMessage(1, None, <<"b", " ">>, FALSE, None),
          HistoryMessage(8, None, <<" ", "a">>, FALSE, None)>>)}

\* OpenAiClient::rewrite: an error, or the trimmed, non-empty text
LlmResults == {Err, Ok(<<"a">>), Ok(<<"c">>)}

Entry(kind, chat_id, message_id, info) ==
    [kind |-> kind, chat_id |-> chat_id, message_id |-> message_id,
     info |-> info]

EditCall(chat_id, message_id, ok, at) ==
    [chat_id |-> chat_id, message_id |-> message_id, ok |-> ok, at |-> at]

\* the orchestrator and its caches after startup (app.rs 145-181)
InitState(configs, skips, overrides, updates, reloads) ==
    \E hc \in configs, skip \in skips, raw_override \in overrides :
        LET built == ActiveRewriteState_from_hot_config(hc, TRUE)
        IN  /\ built.ok
            /\ active = built.value
            /\ monitored_chats = built.value.monitored_chats
            /\ dedupe_cache = DedupeCache_new(DEDUPE_TTL_SECONDS)
            /\ context_cache = ContextCache_new(hc.rewrite.context_messages)
            /\ hot_value = hc
            /\ hot_changed = FALSE
            /\ options =
                   [skip_historical_catch_up_messages |-> skip,
                    rewrite_override |-> normalize_rewrite_override(raw_override)]
            /\ pc = "select"
            /\ msg = NoMsg
            /\ context = <<>>
            /\ candidate = <<>>
            /\ shutdown_signal = FALSE
            /\ now = 0
            /\ trace = <<>>
            /\ updates_left = updates
            /\ reloads_left = reloads
            /\ call = NoCall
            /\ inserted_at = <<>>
            /\ edit_calls = <<>>
            /\ hist = NoHistory
            /\ calls_left = 0

\* the runs in which a reload cycle of the watcher is one step, Reload(file),
\* and the file and the queue of notifications are left out
InitRun(configs, skips, overrides, updates, reloads) ==
    /\ InitState(configs, skips, overrides, updates, reloads)
    /\ config_file = <<>>
    /\ notify_rx = 0
    /\ watcher_pc = "cycle"
    /\ events_left = 0

InitWith(configs, skips, overrides) ==
    InitRun(configs, skips, overrides, MaxUpdates, MaxReloads)

\* historical skipping is off
Init == InitWith(HotConfigs, {FALSE}, RawOverrides)

unitVars == <<call, inserted_at, calls_left>>

(***************************************************************************)
(* process_message, cut at its await points.  Each piece sets pc, msg,     *)
(* context, candidate, context_cache, dedupe_cache and trace.              *)
(***************************************************************************)
\* process_message returns; the loop goes back to select!
Return(cache, dedupe, tr) ==
    /\ pc' = "select"
    /\ msg' = NoMsg
    /\ context' = <<>>
    /\ candidate' = <<>>
    /\ context_cache' = cache
    /\ dedupe_cache' = dedupe
    /\ trace' = tr

PostProcess_unfiltered(message, text, cache, dedupe, tr) ==
    /\ pc' = "edit"
    /\ msg' = message
    /\ context' = <<>>
    /\ candidate' = truncate_to_telegram_limit(Trim(text),
                                               TELEGRAM_MESSAGE_MAX_CHARS)
    /\ context_cache' = cache
    /\ dedupe_cache' = dedupe
    /\ trace' = tr

\* app.rs 573-583: trim, truncate, the no-op filters, then the edit call
PostProcess(message, text, cache, dedupe, tr) ==
    LET original == Trim(message.text)
        rewritten == truncate_to_telegram_limit(Trim(text),
                                                TELEGRAM_MESSAGE_MAX_CHARS)
    IN  IF rewritten = <<>> \/ rewritten = original
        THEN Return(cache, dedupe, tr)
        ELSE /\ pc' = "edit"
             /\ msg' = message
             /\ context' = <<>>
             /\ candidate' = rewritten
             /\ context_cache' = cache
             /\ dedupe_cache' = dedupe
             /\ trace' = tr

RewriteStep_model_first(message, ctx, cache, dedupe, tr) ==
    /\ pc' = "rewrite"
    /\ msg' = message
    /\ context' = ctx
    /\ candidate' = <<>>
    /\ context_cache' = cache
    /\ dedupe_cache' = dedupe
    /\ trace' = tr

\* app.rs 552-571: the override, or the model call
RewriteStep(message, ctx, cache, dedupe, tr) ==
    IF IsSome(options.rewrite_override)
    THEN PostProcess(message, Unwrap(options.rewrite_override), cache, dedupe, tr)
    ELSE /\ pc' = "rewrite"
         /\ msg' = message
         /\ context' = ctx
         /\ candidate' = <<>>
         /\ context_cache' = cache
         /\ dedupe_cache' = dedupe
         /\ trace' = tr

ProcessMessage_any_author(message, context_scope, cache, tr) ==
    LET chat_id == context_scope.chat_id
        rewrite == active.hot_config.rewrite
        checked == DedupeCache_contains_cache(dedupe_cache, chat_id, message.id, now)
        ctx == recent_before(cache, context_scope, message.id,
                             rewrite.context_messages)
    IN  IF DedupeCache_contains(dedupe_cache, chat_id, message.id, now)
        THEN Return(cache, checked, tr)
        ELSE IF Trim(message.text) = <<>>
        THEN Return(cache, checked, tr)
        ELSE IF should_backfill(cache, context_scope, rewrite.context_messages,
                                Len(ctx))
        THEN /\ pc' = "fetch"
             /\ msg' = message
             /\ context' = ctx
             /\ candidate' = <<>>
             /\ context_cache' = mark_hydrated(cache, context_scope)
             /\ dedupe_cache' = checked
             /\ trace' = tr
        ELSE RewriteStep(message, ctx, cache, checked, tr)

\* app.rs 459-496: the filters, the dedupe check, context assembly
ProcessMessage(message, context_scope, cache, tr) ==
    LET chat_id == context_scope.chat_id
        rewrite == active.hot_config.rewrite
        checked == DedupeCache_contains_cache(dedupe_cache, chat_id, message.id, now)
        ctx == recent_before(cache, context_scope, message.id,
                             rewrite.context_messages)
    IN  IF ~message.outgoing
        THEN Return(cache, dedupe_cache, tr)
        ELSE IF DedupeCache_contains(dedupe_cache, chat_id, message.id, now)
        THEN Return(cache, checked, tr)
        ELSE IF Trim(message.text) = <<>>
        THEN Return(cache, checked, tr)
        ELSE IF should_backfill(cache, context_scope, rewrite.context_messages,
                                Len(ctx))
        THEN /\ pc' = "fetch"
             /\ msg' = message
             /\ context' = ctx
             /\ candidate' = <<>>
             /\ context_cache' = mark_hydrated(cache, context_scope)
             /\ dedupe_cache' = checked
             /\ trace' = tr
        ELSE RewriteStep(message, ctx, cache, checked, tr)

(***************************************************************************)
(* The select! loop.                                                       *)
(***************************************************************************)
loopFrame == <<active, monitored_chats, hot_value, hot_changed, options,
               shutdown_signal, now, reloads_left, unitVars, watcherVars>>

\* app.rs 191-255: Ok(Update::NewMessage(message))
\* calls with one more fetch_context call, started for message_id in scope
FetchStarted(calls, scope, message_id) ==
    (scope :> Append(IF scope \in DOMAIN calls THEN calls[scope] ELSE <<>>,
                     message_id)) @@ calls

NewMessage_observed_after_filter(message) ==
        /\ pc = "select"
        /\ updates_left > 0
        /\ updates_left' = updates_left - 1
        /\ UNCHANGED <<loopFrame, edit_calls>>
        /\ LET chat_id == message.chat_id
               context_scope == ContextScope(chat_id, message_topic_root_id(message))
               observed == IF message.outgoing
                           THEN observe_update_message(context_cache,
                                                       context_scope, message)
                           ELSE context_cache
           IN  IF ~is_monitored_chat(monitored_chats, chat_id)
               THEN Return(context_cache, dedupe_cache, trace)
               ELSE IF /\ options.skip_historical_catch_up_messages
                       /\ is_historical_catch_up_message(message.date, startup_unix)
               THEN Return(observed, dedupe_cache, trace)
               ELSE ProcessMessage(message, context_scope, observed,
                        Append(trace, Entry("MonitoredUpdate", chat_id, message.id,
                                            [topic_root_id |-> context_scope.topic_root_id,
                                             outgoing |-> message.outgoing])))
        /\ hist' =
               [hist EXCEPT
                   !.handled = [kind |-> "new_message", message |-> message],
                   !.fetch_calls =
                       IF pc' = "fetch"
                       THEN FetchStarted(@, ContextScope(message.chat_id,
                                                message_topic_root_id(message)),
                                         message.id)
                       ELSE @]

NewMessage_while_editing(message) ==
        /\ pc \in {"select", "edit"}
        /\ updates_left > 0
        /\ updates_left' = updates_left - 1
        /\ UNCHANGED <<loopFrame, edit_calls>>
        /\ LET chat_id == message.chat_id
               context_scope == ContextScope(chat_id, message_topic_root_id(message))
               observed == observe_update_message(context_cache, context_scope,
                                                  message)
           IN  IF ~is_monitored_chat(monitored_chats, chat_id)
               THEN Return(context_cache, dedupe_cache, trace)
               ELSE IF /\ options.skip_historical_catch_up_messages
                       /\ is_historical_catch_up_message(message.date, startup_unix)
               THEN Return(observed, dedupe_cache, trace)
               ELSE ProcessMessage(message, context_scope, observed,
                        Append(trace, Entry("MonitoredUpdate", chat_id, message.id,
                                            [topic_root_id |-> context_scope.topic_root_id,
                                             outgoing |-> message.outgoing])))
        /\ hist' =
               [hist EXCEPT
                   !.handled = [kind |-> "new_message", message |-> message],
                   !.fetch_calls =
                       IF pc' = "fetch"
                       THEN FetchStarted(@, ContextScope(message.chat_id,
                                                message_topic_root_id(message)),
                                         message.id)
                       ELSE @]

NewMessage(message) ==
        /\ pc = "select"
        /\ updates_left > 0
        /\ updates_left' = updates_left - 1
        /\ UNCHANGED <<loopFrame, edit_calls>>
        /\ LET chat_id == message.chat_id
               context_scope == ContextScope(chat_id, message_topic_root_id(message))
               observed == observe_update_message(context_cache, context_scope,
                                                  message)
           IN  IF ~is_monitored_chat(monitored_chats, chat_id)
               THEN Return(context_cache, dedupe_cache, trace)
               ELSE IF /\ options.skip_historical_catch_up_messages
                       /\ is_historical_catch_up_message(message.date, startup_unix)
               THEN Return(observed, dedupe_cache, trace)
               ELSE ProcessMessage(message, context_scope, observed,
                        Append(trace, Entry("MonitoredUpdate", chat_id, message.id,
                                            [topic_root_id |-> context_scope.topic_root_id,
                                             outgoing |-> message.outgoing])))
        /\ hist' =
               [hist EXCEPT
                   !.handled = [kind |-> "new_message", message |-> message],
                   !.fetch_calls =
                       IF pc' = "fetch"
                       THEN FetchStarted(@, ContextScope(message.chat_id,
                                                message_topic_root_id(message)),
                                         message.id)
                       ELSE @]

UpdateNewMessage == \E message \in UpdateMessages : NewMessage(message)

\* app.rs 256-265: Ok(update) of any other kind
UpdateOther ==
    \E update_kind \in OtherUpdateKinds :
        /\ pc = "select"
        /\ updates_left > 0
        /\ updates_left' = updates_left - 1
        /\ trace' = Append(trace, Entry("UnsupportedUpdateIgnored", 0, 0,
                                        update_kind))
        /\ hist' = [hist EXCEPT
                           !.handled = [kind |-> update_kind, message |-> NoMsg]]
        /\ UNCHANGED <<pc, msg, context, candidate, context_cache, dedupe_cache,
                       loopFrame, edit_calls>>

UpdateError_fatal ==
    /\ pc = "select"
    /\ updates_left > 0
    /\ updates_left' = updates_left - 1
    /\ pc' = "returned_err"
    /\ hist' = [hist EXCEPT
                       !.handled = [kind |-> "error", message |-> NoMsg]]
    /\ UNCHANGED <<msg, context, candidate, context_cache, dedupe_cache, trace,
                   loopFrame, edit_calls>>

\* app.rs 266: Err(err) from the update stream
UpdateError ==
    /\ pc = "select"
    /\ updates_left > 0
    /\ updates_left' = updates_left - 1
    /\ hist' = [hist EXCEPT
                       !.handled = [kind |-> "error", message |-> NoMsg]]
    /\ UNCHANGED <<pc, msg, context, candidate, context_cache, dedupe_cache, trace,
                   loopFrame, edit_calls>>

\* app.rs 494-519: fetch_context returns
FetchReturned_merged(history) ==
        /\ pc = "fetch"
        /\ UNCHANGED <<updates_left, loopFrame, edit_calls>>
        /\ LET context_scope ==
                   ContextScope(msg.chat_id, message_topic_root_id(msg))
               fetched ==
                   fetch_context(history, msg,
                                 active.hot_config.rewrite.context_messages,
                                 context_scope.topic_root_id)
           IN  /\ RewriteStep(msg, IF fetched.ok THEN context \o fetched.value
                                   ELSE context,
                              context_cache, dedupe_cache, trace)
               /\ hist' = [hist EXCEPT
                               !.fetched =
                                   Some([chat_id |-> msg.chat_id,
                                         message_id |-> msg.id,
                                         cached |-> context,
                                         result |-> fetched])]

FetchReturned_aborting(history) ==
        /\ pc = "fetch"
        /\ UNCHANGED <<updates_left, loopFrame, edit_calls>>
        /\ LET context_scope ==
                   ContextScope(msg.chat_id, message_topic_root_id(msg))
               fetched ==
                   fetch_context(history, msg,
                                 active.hot_config.rewrite.context_messages,
                                 context_scope.topic_root_id)
           IN  /\ IF fetched.ok
                  THEN RewriteStep(msg, fetched.value, context_cache,
                                   dedupe_cache, trace)
                  ELSE Return(context_cache, dedupe_cache, trace)
               /\ hist' = [hist EXCEPT
                               !.fetched =
                                   Some([chat_id |-> msg.chat_id,
                                         message_id |-> msg.id,
                                         cached |-> context,
                                         result |-> fetched])]

FetchReturned(history) ==
        /\ pc = "fetch"
        /\ UNCHANGED <<updates_left, loopFrame, edit_calls>>
        /\ LET context_scope ==
                   ContextScope(msg.chat_id, message_topic_root_id(msg))
               fetched ==
                   fetch_context(history, msg,
                                 active.hot_config.rewrite.context_messages,
                                 context_scope.topic_root_id)
           IN  /\ RewriteStep(msg, IF fetched.ok THEN fetched.value ELSE context,
                              context_cache, dedupe_cache, trace)
               /\ hist' = [hist EXCEPT
                               !.fetched =
                                   Some([chat_id |-> msg.chat_id,
                                         message_id |-> msg.id,
                                         cached |-> context,
                                         result |-> fetched])]

FetchDone == \E history \in Histories : FetchReturned(history)

RewriteDone_failure_edited ==
    \E result \in LlmResults :
        /\ pc = "rewrite"
        /\ UNCHANGED <<updates_left, loopFrame, edit_calls>>
        /\ hist' = [hist EXCEPT
                           !.rewrite_calls =
                               Append(@, [chat_id |-> msg.chat_id,
                                          message_id |-> msg.id,
                                          context |-> context,
                                          result |-> result])]
        /\ PostProcess(msg, IF result.ok THEN result.value ELSE <<"c">>,
                       context_cache, dedupe_cache, trace)

\* app.rs 556-571: llm.rewrite returns
RewriteDone ==
    \E result \in LlmResults :
        /\ pc = "rewrite"
        /\ UNCHANGED <<updates_left, loopFrame, edit_calls>>
        /\ hist' = [hist EXCEPT
                           !.rewrite_calls =
                               Append(@, [chat_id |-> msg.chat_id,
                                          message_id |-> msg.id,
                                          context |-> context,
                                          result |-> result])]
        /\ IF result.ok
           THEN PostProcess(msg, result.value, context_cache, dedupe_cache, trace)
           ELSE Return(context_cache, dedupe_cache, trace)

EditDone_caching_rewritten ==
    \E edited \in BOOLEAN :
        /\ pc = "edit"
        /\ UNCHANGED <<updates_left, loopFrame, hist>>
        /\ edit_calls' = Append(edit_calls, EditCall(msg.chat_id, msg.id, edited, now))
        /\ IF edited
           THEN Return([context_cache EXCEPT
                           !.entries =
                               [scope \in DOMAIN context_cache.entries |->
                                   [i \in DOMAIN context_cache.entries[scope] |->
                                       LET cached == context_cache.entries[scope][i]
                                       IN  IF /\ scope.chat_id = msg.chat_id
                                              /\ cached.message_id = msg.id
                                           THEN [cached EXCEPT
                                                    !.message.text = candidate]
                                           ELSE cached]]],
                       DedupeCache_insert(dedupe_cache, msg.chat_id, msg.id, now),
                       Append(trace, Entry("MessageEdited", msg.chat_id, msg.id,
                                           <<>>)))
           ELSE Return(context_cache, dedupe_cache, trace)

EditDone_recorded_on_failure ==
    \E edited \in BOOLEAN :
        /\ pc = "edit"
        /\ UNCHANGED <<updates_left, loopFrame, hist>>
        /\ edit_calls' = Append(edit_calls, EditCall(msg.chat_id, msg.id, edited, now))
        /\ Return(context_cache,
                  DedupeCache_insert(dedupe_cache, msg.chat_id, msg.id, now),
                  IF edited
                  THEN Append(trace, Entry("MessageEdited", msg.chat_id, msg.id,
                                           <<>>))
                  ELSE trace)

\* app.rs 583-604: bot.edit_message returns
EditDone ==
    \E edited \in BOOLEAN :
        /\ pc = "edit"
        /\ UNCHANGED <<updates_left, loopFrame, hist>>
        /\ edit_calls' = Append(edit_calls, EditCall(msg.chat_id, msg.id, edited, now))
        /\ IF edited
           THEN Return(context_cache,
                       DedupeCache_insert(dedupe_cache, msg.chat_id, msg.id, now),
                       Append(trace, Entry("MessageEdited", msg.chat_id, msg.id,
                                           <<>>)))
           ELSE Return(context_cache, dedupe_cache, trace)

HotConfigChanged_cap_kept ==
    \E http_ok \in BOOLEAN :
        /\ pc = "select"
        /\ hot_changed
        /\ hot_changed' = FALSE
        /\ LET built == ActiveRewriteState_from_hot_config(hot_value, http_ok)
               new_active == built.value
           IN  IF built.ok
               THEN /\ monitored_chats' = new_active.monitored_chats
                    /\ context_cache' =
                           retain_chats(context_cache,
                                        new_active.monitored_chats)
                    /\ active' = new_active
               ELSE UNCHANGED <<monitored_chats, context_cache, active>>
        /\ hist' =
               [hist EXCEPT
                   !.fetch_calls =
                       Restrict(@, {scope \in DOMAIN @ :
                                        scope.chat_id \in monitored_chats'}),
                   !.swaps =
                       Append(@, [value |-> hot_value,
                                  ok |-> ActiveRewriteState_from_hot_config(
                                             hot_value, http_ok).ok])]
        /\ UNCHANGED <<pc, msg, context, candidate, dedupe_cache, hot_value,
                       options, shutdown_signal, now, trace, updates_left,
                       reloads_left, unitVars, edit_calls,
                       watcherVars>>

HotConfigChanged_mid_handler ==
    \E http_ok \in BOOLEAN :
        /\ pc \in {"select", "fetch", "rewrite", "edit"}
        /\ hot_changed
        /\ hot_changed' = FALSE
        /\ LET built == ActiveRewriteState_from_hot_config(hot_value, http_ok)
               new_active == built.value
           IN  IF built.ok
               THEN /\ monitored_chats' = new_active.monitored_chats
                    /\ context_cache' =
                           set_per_chat_limit(
                               retain_chats(context_cache,
                                            new_active.monitored_chats),
                               new_active.hot_config.rewrite.context_messages)
                    /\ active' = new_active
               ELSE UNCHANGED <<monitored_chats, context_cache, active>>
        /\ hist' =
               [hist EXCEPT
                   !.fetch_calls =
                       Restrict(@, {scope \in DOMAIN @ :
                                        scope.chat_id \in monitored_chats'}),
                   !.swaps =
                       Append(@, [value |-> hot_value,
                                  ok |-> ActiveRewriteState_from_hot_config(
                                             hot_value, http_ok).ok])]
        /\ UNCHANGED <<pc, msg, context, candidate, dedupe_cache, hot_value,
                       options, shutdown_signal, now, trace, updates_left,
                       reloads_left, unitVars, edit_calls,
                       watcherVars>>

HotConfigChanged_reconciled_before_built ==
    \E http_ok \in BOOLEAN :
        /\ pc = "select"
        /\ hot_changed
        /\ hot_changed' = FALSE
        /\ LET built == ActiveRewriteState_from_hot_config(hot_value, http_ok)
               new_active == built.value
           IN  IF built.ok
               THEN /\ monitored_chats' = new_active.monitored_chats
                    /\ context_cache' =
                           set_per_chat_limit(
                               retain_chats(context_cache,
                                            new_active.monitored_chats),
                               new_active.hot_config.rewrite.context_messages)
                    /\ active' = new_active
               ELSE /\ monitored_chats' = SeqRange(hot_value.rewrite.chats)
                    /\ context_cache' =
                           set_per_chat_limit(
                               retain_chats(context_cache,
                                            SeqRange(hot_value.rewrite.chats)),
                               hot_value.rewrite.context_messages)
                    /\ UNCHANGED active
        /\ hist' =
               [hist EXCEPT
                   !.fetch_calls =
                       Restrict(@, {scope \in DOMAIN @ :
                                        scope.chat_id \in monitored_chats'}),
                   !.swaps =
                       Append(@, [value |-> hot_value,
                                  ok |-> ActiveRewriteState_from_hot_config(
                                             hot_value, http_ok).ok])]
        /\ UNCHANGED <<pc, msg, context, candidate, dedupe_cache, hot_value,
                       options, shutdown_signal, now, trace, updates_left,
                       reloads_left, unitVars, edit_calls,
                       watcherVars>>

\* app.rs 269-287: Ok(()) = hot_rx.changed()
HotConfigChanged ==
    \E http_ok \in BOOLEAN :
        /\ pc = "select"
        /\ hot_changed
        /\ hot_changed' = FALSE
        /\ LET built == ActiveRewriteState_from_hot_config(hot_value, http_ok)
               new_active == built.value
           IN  IF built.ok
               THEN /\ monitored_chats' = new_active.monitored_chats
                    /\ context_cache' =
                           set_per_chat_limit(
                               retain_chats(context_cache,
                                            new_active.monitored_chats),
                               new_active.hot_config.rewrite.context_messages)
                    /\ active' = new_active
               ELSE UNCHANGED <<monitored_chats, context_cache, active>>
        /\ hist' =
               [hist EXCEPT
                   !.fetch_calls =
                       Restrict(@, {scope \in DOMAIN @ :
                                        scope.chat_id \in monitored_chats'}),
                   !.swaps =
                       Append(@, [value |-> hot_value,
                                  ok |-> ActiveRewriteState_from_hot_config(
                                             hot_value, http_ok).ok])]
        /\ UNCHANGED <<pc, msg, context, candidate, dedupe_cache, hot_value,
                       options, shutdown_signal, now, trace, updates_left,
                       reloads_left, unitVars, edit_calls,
                       watcherVars>>

ShutdownTaken_mid_handler ==
    /\ pc \in {"select", "fetch", "rewrite", "edit"}
    /\ shutdown_signal
    /\ pc' = "closing"
    /\ UNCHANGED <<msg, context, candidate, context_cache, dedupe_cache, trace,
                   updates_left, loopFrame, edit_calls, hist>>

\* app.rs 185-188 and 291: the shutdown branch, then bot.shutdown()
ShutdownTaken ==
    /\ pc = "select"
    /\ shutdown_signal
    /\ pc' = "closing"
    /\ UNCHANGED <<msg, context, candidate, context_cache, dedupe_cache, trace,
                   updates_left, loopFrame, edit_calls, hist>>

\* telegram.rs 234-246: bot.shutdown() returns
CloseDone ==
    \E closed \in BOOLEAN :
        /\ pc = "closing"
        /\ pc' = IF closed THEN "returned_ok" ELSE "returned_err"
        /\ hist' = [hist EXCEPT !.closes = Append(@, closed)]
        /\ UNCHANGED <<msg, context, candidate, context_cache, dedupe_cache, trace,
                       updates_left, loopFrame, edit_calls>>

(***************************************************************************)
(* The environment.                                                        *)
(***************************************************************************)
Running == pc \notin {"returned_ok", "returned_err"}

\* history: what one reload cycle of the watcher found and did; published:
\* send_if_modified replaced the channel's value
ReloadResult(file) ==
    [file |-> file, loaded |-> load_hot_config(file),
     published |-> hot_value' # hot_value]

\* app.rs 397-411: the watcher task reloads the file and publishes a change
Reload_always_published(file) ==
        /\ Running
        /\ reloads_left > 0
        /\ reloads_left' = reloads_left - 1
        /\ LET loaded == load_hot_config(file)
           IN  IF loaded.ok
               THEN /\ hot_value' = loaded.value
                    /\ hot_changed' = TRUE
               ELSE UNCHANGED <<hot_value, hot_changed>>
        /\ hist' = [hist EXCEPT
                        !.reloads = Append(@, ReloadResult(file))]
        /\ UNCHANGED <<pc, msg, context, candidate, active, monitored_chats,
                       dedupe_cache, context_cache, options, shutdown_signal, now,
                       trace, updates_left, unitVars, edit_calls,
                       watcherVars>>

Reload_published_on_failure(file) ==
        /\ Running
        /\ reloads_left > 0
        /\ reloads_left' = reloads_left - 1
        /\ LET loaded == load_hot_config(file)
           IN  IF hot_value # file.value
               THEN /\ hot_value' = file.value
                    /\ hot_changed' = TRUE
               ELSE UNCHANGED <<hot_value, hot_changed>>
        /\ hist' = [hist EXCEPT
                        !.reloads = Append(@, ReloadResult(file))]
        /\ UNCHANGED <<pc, msg, context, candidate, active, monitored_chats,
                       dedupe_cache, context_cache, options, shutdown_signal, now,
                       trace, updates_left, unitVars, edit_calls,
                       watcherVars>>

Reload_keeping_unread(file) ==
        /\ Running
        /\ reloads_left > 0
        /\ reloads_left' = reloads_left - 1
        /\ LET loaded == load_hot_config(file)
           IN  IF loaded.ok /\ hot_value # loaded.value /\ ~hot_changed
               THEN /\ hot_value' = loaded.value
                    /\ hot_changed' = TRUE
               ELSE UNCHANGED <<hot_value, hot_changed>>
        /\ hist' = [hist EXCEPT
                        !.reloads =
                            Append(@, [ReloadResult(file) EXCEPT
                                          !.published =
                                              load_hot_config(file).ok
                                              /\ load_hot_config(file).value
                                                     # hot_value])]
        /\ UNCHANGED <<pc, msg, context, candidate, active, monitored_chats,
                       dedupe_cache, context_cache, options, shutdown_signal, now,
                       trace, updates_left, unitVars, edit_calls,
                       watcherVars>>

Reload(file) ==
        /\ Running
        /\ reloads_left > 0
        /\ reloads_left' = reloads_left - 1
        /\ LET loaded == load_hot_config(file)
           IN  IF loaded.ok /\ hot_value # loaded.value
               THEN /\ hot_value' = loaded.value
                    /\ hot_changed' = TRUE
               ELSE UNCHANGED <<hot_value, hot_changed>>
        /\ hist' = [hist EXCEPT
                        !.reloads = Append(@, ReloadResult(file))]
        /\ UNCHANGED <<pc, msg, context, candidate, active, monitored_chats,
                       dedupe_cache, context_cache, options, shutdown_signal, now,
                       trace, updates_left, unitVars, edit_calls,
                       watcherVars>>

WatcherReload == \E file \in ConfigFiles : Reload(file)

\* what the watcher task and its callback leave alone
orchestratorVars == <<pc, msg, context, candidate, active, monitored_chats,
                      dedupe_cache, context_cache, options, shutdown_signal,
                      now, trace, updates_left, reloads_left, unitVars,
                      edit_calls>>

\* app.rs 364-382: the watcher's callback is given an event of the watched
\* directory; file: what reading the config file yields from then on
FsNotify(event, file) ==
    LET queued ==
            /\ is_relevant_config_event_kind(event.kind)
            /\ event_targets_watched_config(event, WatchedPath, Symlinks,
                                            ExistingPaths)
    IN  /\ Running
        /\ events_left > 0
        /\ events_left' = events_left - 1
        /\ notify_rx' = IF queued THEN notify_rx + 1 ELSE notify_rx
        /\ config_file' = file
        /\ hist' = [hist EXCEPT
                        !.event = Some(event),
                        !.notified = IF queued THEN @ + 1 ELSE @,
                        !.unloaded = @ \/ queued]
        /\ UNCHANGED <<orchestratorVars, hot_value, hot_changed, watcher_pc>>

\* app.rs 365-371: the callback is given an error of the filesystem watcher
FsNotifyError ==
    /\ Running
    /\ events_left > 0
    /\ events_left' = events_left - 1
    /\ hist' = [hist EXCEPT !.event = Some(Err)]
    /\ UNCHANGED <<orchestratorVars, hot_value, hot_changed, config_file,
                   notify_rx, watcher_pc>>

\* app.rs 391-394: recv() returns a notification, the first drain empties
\* the queue and the settle delay begins
WatcherRecv ==
    /\ Running
    /\ watcher_pc = "recv"
    /\ notify_rx > 0
    /\ notify_rx' = 0
    /\ watcher_pc' = "sleep"
    /\ UNCHANGED <<orchestratorVars, hot_value, hot_changed, hist, config_file,
                   events_left>>

\* app.rs 394-395: the settle delay is over, the second drain empties the
\* queue
WatcherSlept ==
    /\ Running
    /\ watcher_pc = "sleep"
    /\ notify_rx' = 0
    /\ watcher_pc' = "load"
    /\ UNCHANGED <<orchestratorVars, hot_value, hot_changed, hist, config_file,
                   events_left>>

WatcherLoad_unnotified ==
    /\ Running
    /\ watcher_pc = "load"
    /\ watcher_pc' = "recv"
    /\ LET loaded == load_hot_config(config_file)
       IN  IF loaded.ok /\ hot_value # loaded.value
           THEN /\ hot_value' = loaded.value
                /\ UNCHANGED hot_changed
           ELSE UNCHANGED <<hot_value, hot_changed>>
    /\ hist' = [hist EXCEPT
                    !.reloads = Append(@, ReloadResult(config_file)),
                    !.unloaded = FALSE]
    /\ UNCHANGED <<orchestratorVars, config_file, notify_rx, events_left>>

WatcherLoad_draining ==
    /\ Running
    /\ watcher_pc = "load"
    /\ watcher_pc' = "recv"
    /\ notify_rx' = 0
    /\ LET loaded == load_hot_config(config_file)
       IN  IF loaded.ok /\ hot_value # loaded.value
           THEN /\ hot_value' = loaded.value
                /\ hot_changed' = TRUE
           ELSE UNCHANGED <<hot_value, hot_changed>>
    /\ hist' = [hist EXCEPT
                    !.reloads = Append(@, ReloadResult(config_file)),
                    !.unloaded = FALSE]
    /\ UNCHANGED <<orchestratorVars, config_file, events_left>>

\* app.rs 397-411: the file is reloaded and a changed policy is published;
\* the task goes back to recv()
WatcherLoad ==
    /\ Running
    /\ watcher_pc = "load"
    /\ watcher_pc' = "recv"
    /\ LET loaded == load_hot_config(config_file)
       IN  IF loaded.ok /\ hot_value # loaded.value
           THEN /\ hot_value' = loaded.value
                /\ hot_changed' = TRUE
           ELSE UNCHANGED <<hot_value, hot_changed>>
    /\ hist' = [hist EXCEPT
                    !.reloads = Append(@, ReloadResult(config_file)),
                    !.unloaded = FALSE]
    /\ UNCHANGED <<orchestratorVars, config_file, notify_rx, events_left>>

ShutdownSignal ==
    /\ Running
    /\ ~shutdown_signal
    /\ shutdown_signal' = TRUE
    /\ UNCHANGED <<pc, msg, context, candidate, active, monitored_chats,
                   dedupe_cache, context_cache, hot_value, hot_changed, options,
                   now, trace, updates_left, reloads_left, unitVars, edit_calls, hist,
                   watcherVars>>

Tick ==
    \E d \in ClockSteps :
        /\ Running
        /\ now + d <= MaxNow
        /\ now' = now + d
        /\ UNCHANGED <<pc, msg, context, candidate, active, monitored_chats,
                       dedupe_cache, context_cache, hot_value, hot_changed, options,
                       shutdown_signal, trace, updates_left, reloads_left, unitVars,
                       edit_calls, hist, watcherVars>>

Next ==
    \/ UpdateNewMessage
    \/ UpdateOther
    \/ UpdateError
    \/ FetchDone
    \/ RewriteDone
    \/ EditDone
    \/ HotConfigChanged
    \/ WatcherReload
    \/ Tick

\* the runs in which the shutdown signal has not fired
Spec == Init /\ [][Next]_vars

\* the runs in which the shutdown signal may fire at any moment
NextShutdown ==
    \/ Next
    \/ ShutdownTaken
    \/ CloseDone
    \/ ShutdownSignal

SpecShutdown == Init /\ [][NextShutdown]_vars

(***************************************************************************)
(* SpecBackfill: one conversation with a forum topic, the operator's own   *)
(* messages under a rewrite override, and reloads that change the context  *)
(* depth or replace the monitored conversation.                            *)
(***************************************************************************)
BackfillConfig(chats, context_messages) ==
    HotConfig(ApiKey, Model, RewriteConfig(chats, Prompt, context_messages))

BackfillConfigs ==
    {BackfillConfig(chats, n) : chats \in {<<1>>, <<2>>}, n \in {1, MaxLimit}}

BackfillMessages ==
    [id : MsgIds \cup {3}, chat_id : {1},
     reply_to : {None, Some(ReplyHeader(Some(7), TRUE, Some(9)))},
     topic_create : {FALSE}, text : {<<" ", "a">>}, outgoing : {TRUE},
     peer_name : PeerNames, date : {startup_unix}]

InitBackfill ==
    InitRun({BackfillConfig(<<1>>, 1)}, {FALSE}, {Some(<<"c">>)},
            MaxUpdates + 1, MaxReloads + 1)

BackfillUpdate == \E message \in BackfillMessages : NewMessage(message)

BackfillReload == \E hc \in BackfillConfigs : Reload(Ok(hc))

\* the fetch fails or finds nothing
BackfillFetch == \E history \in {Err, Ok(<<>>)} : FetchReturned(history)

NextBackfill ==
    \/ BackfillUpdate
    \/ BackfillFetch
    \/ EditDone
    \/ HotConfigChanged
    \/ BackfillReload

SpecBackfill == InitBackfill /\ [][NextBackfill]_vars

(***************************************************************************)
(* SpecPipeline: process_message alone, for one monitored conversation     *)
(* under a fixed policy, with and without a rewrite override.              *)
(***************************************************************************)
PipelineMessages ==
    [id : MsgIds, chat_id : {1}, reply_to : {None}, topic_create : {FALSE},
     text : UpdateTexts \cup {<<"c">>}, outgoing : BOOLEAN,
     peer_name : PeerNames, date : {startup_unix}]

InitPipeline ==
    InitRun({BackfillConfig(<<1>>, n) : n \in {0, 1}}, {FALSE}, RawOverrides,
            MaxUpdates, 0)

PipelineUpdate == \E message \in PipelineMessages : NewMessage(message)

NextPipeline ==
    \/ PipelineUpdate
    \/ FetchDone
    \/ RewriteDone
    \/ EditDone

SpecPipeline == InitPipeline /\ [][NextPipeline]_vars

(***************************************************************************)
(* SpecReload: the watcher reloading the file several times while the loop *)
(* handles the operator's messages under a rewrite override; at startup    *)
(* both conversations are monitored.                                       *)
(***************************************************************************)
ReloadMessages ==
    [id : {1}, chat_id : Chats, reply_to : {None}, topic_create : {FALSE},
     text : {<<" ", "a">>}, outgoing : {TRUE}, peer_name : PeerNames,
     date : {startup_unix}]

InitReload ==
    InitRun({BackfillConfig(<<1, 2>>, n) : n \in {0, 1}}, {FALSE},
            {Some(<<"c">>)}, MaxUpdates - 1, MaxReloads + 1)

ReloadUpdate == \E message \in ReloadMessages : NewMessage(message)

NextReload ==
    \/ ReloadUpdate
    \/ FetchDone
    \/ EditDone
    \/ HotConfigChanged
    \/ WatcherReload

SpecReload == InitReload /\ [][NextReload]_vars

(***************************************************************************)
(* SpecLatest: the watcher reloads the file only while a handler of the    *)
(* loop is in progress.                                                    *)
(***************************************************************************)
LatestMessages ==
    [id : MsgIds, chat_id : {1}, reply_to : {None}, topic_create : {FALSE},
     text : {<<" ", "a">>}, outgoing : {TRUE}, peer_name : PeerNames,
     date : {startup_unix}]

InitLatest ==
    InitRun(HotConfigs, {FALSE}, {Some(<<"c">>)}, MaxUpdates - 1,
            MaxReloads + 1)

LatestUpdate == \E message \in LatestMessages : NewMessage(message)

BusyReload == pc # "select" /\ WatcherReload

NextLatest ==
    \/ LatestUpdate
    \/ FetchDone
    \/ EditDone
    \/ HotConfigChanged
    \/ BusyReload

SpecLatest == InitLatest /\ [][NextLatest]_vars

(***************************************************************************)
(* SpecLoop: the whole select! loop for two conversations, every source    *)
(* included: updates of each kind and stream errors, calls that fail or    *)
(* succeed, reloads that fail or change the context depth, and the         *)
(* shutdown signal followed by bot.shutdown().                             *)
(***************************************************************************)
LoopMessages ==
    [id : {1}, chat_id : Chats, reply_to : {None}, topic_create : {FALSE},
     text : {<<" ", "a">>}, outgoing : {TRUE}, peer_name : PeerNames,
     date : {startup_unix}]

LoopFiles == {Err, Ok(BackfillConfig(<<1, 2>>, 0))}

InitLoop ==
    InitRun({BackfillConfig(<<1, 2>>, 1)}, {FALSE}, {None}, MaxUpdates + 1,
            MaxReloads + 1)

LoopUpdate == \E message \in LoopMessages : NewMessage(message)

LoopReload == \E file \in LoopFiles : Reload(file)

NextLoop ==
    \/ LoopUpdate
    \/ UpdateOther
    \/ UpdateError
    \/ FetchDone
    \/ RewriteDone
    \/ EditDone
    \/ HotConfigChanged
    \/ LoopReload
    \/ ShutdownSignal
    \/ ShutdownTaken
    \/ CloseDone

SpecLoop == InitLoop /\ [][NextLoop]_vars

(***************************************************************************)
(* SpecBurst: the operator's messages of one monitored conversation, in    *)
(* and outside a forum topic, delivered back to back, each id once, under  *)
(* a rewrite override; every awaited call returns and the stream delivers  *)
(* what it has.                                                            *)
(***************************************************************************)
BurstIds == 1..(MaxUpdates + 1)

BurstMessages ==
    [id : BurstIds, chat_id : {1},
     reply_to : {None, Some(ReplyHeader(Some(7), TRUE, Some(9)))},
     topic_create : {FALSE}, text : {<<" ", "a">>}, outgoing : {TRUE},
     peer_name : PeerNames, date : {startup_unix}]

InitBurst ==
    InitRun({BackfillConfig(<<1>>, 1)}, {FALSE}, {Some(<<"c">>)},
            MaxUpdates + 1, 0)

Delivered(message_id) ==
    \E i \in DOMAIN trace :
        trace[i].kind = "MonitoredUpdate" /\ trace[i].message_id = message_id

BurstUpdate ==
    \E message \in BurstMessages :
        /\ ~Delivered(message.id)
        /\ NewMessage(message)

NextBurst ==
    \/ BurstUpdate
    \/ FetchDone
    \/ EditDone

SpecBurst ==
    /\ InitBurst
    /\ [][NextBurst]_vars
    /\ WF_vars(BurstUpdate)
    /\ WF_vars(FetchDone)
    /\ WF_vars(EditDone)

(***************************************************************************)
(* SpecContext: context assembly for one conversation at the largest       *)
(* context depth, with messages of the operator and of another participant *)
(* and the model call in place.                                            *)
(***************************************************************************)
ContextTexts == {<<" ", "a">>, <<"b", " ">>}

ContextUpdates ==
    [id : MsgIds \cup {3}, chat_id : {1}, reply_to : {None},
     topic_create : {FALSE}, text : ContextTexts, outgoing : BOOLEAN,
     peer_name : PeerNames, date : {startup_unix}]

InitContext ==
    InitRun({BackfillConfig(<<1>>, MaxLimit)}, {FALSE}, {None},
            MaxUpdates + 1, 0)

ContextUpdate == \E message \in ContextUpdates : NewMessage(message)

NextContext ==
    \/ ContextUpdate
    \/ FetchDone
    \/ RewriteDone
    \/ EditDone

SpecContext == InitContext /\ [][NextContext]_vars

(***************************************************************************)
(* SpecDebounce: the config watcher step by step, with every kind of event *)
(* of the watched directory, while the loop waits.  The watcher task is    *)
(* scheduled whenever it can run.                                          *)
(***************************************************************************)
\* the watcher starts with the queue empty, the file reading as the policy
\* the runtime was started with
InitWatched(configs, skips, overrides, updates, events) ==
    /\ InitState(configs, skips, overrides, updates, 0)
    /\ config_file = Ok(active.hot_config)
    /\ notify_rx = 0
    /\ watcher_pc = "recv"
    /\ events_left = events

DebounceFiles == {Err, Ok(BackfillConfig(<<1>>, 1)), Ok(BackfillConfig(<<1>>, 0))}

\* the kinds under which the backends of notify report that a regular file
\* was written, created, renamed or removed
SaveKinds ==
    {EventKind("Any", "Any"), EventKind("Create", "Any"),
     EventKind("Create", "File"), EventKind("Modify", "Any"),
     EventKind("Modify", "Data"), EventKind("Modify", "Name"),
     EventKind("Remove", "Any"), EventKind("Remove", "File")}

\* the event reports a save of the watched file
Saves(event) ==
    /\ event.kind \in SaveKinds
    /\ WatchedPath \in SeqRange(event.paths)

InitDebounce ==
    InitWatched({BackfillConfig(<<1>>, 1)}, {FALSE}, {Some(<<"c">>)}, 0,
                MaxEvents)

\* what the file yields changes only with an event that reports a save
DebounceEvent ==
    \E event \in FsEvents, file \in DebounceFiles :
        /\ file # config_file => Saves(event)
        /\ FsNotify(event, file)

NextDebounce ==
    \/ DebounceEvent
    \/ FsNotifyError
    \/ WatcherRecv
    \/ WatcherSlept
    \/ WatcherLoad

SpecDebounce ==
    /\ InitDebounce
    /\ [][NextDebounce]_vars
    /\ WF_vars(WatcherRecv)
    /\ WF_vars(WatcherSlept)
    /\ WF_vars(WatcherLoad)

(***************************************************************************)
(* SpecCatchUp: the operator's messages of one monitored conversation,     *)
(* sent before, at and after the startup time, with the historical skip    *)
(* enabled or disabled.  Message 1 is the one sent before startup.         *)
(***************************************************************************)
CatchUpDates == {startup_unix - 1, startup_unix, startup_unix + 1}

CatchUpMessages ==
    {m \in [id : MsgIds, chat_id : {1}, reply_to : {None},
            topic_create : {FALSE}, text : {<<" ", "a">>}, outgoing : {TRUE},
            peer_name : PeerNames, date : CatchUpDates] :
        m.id = 1 <=> m.date < startup_unix}

InitCatchUp ==
    InitRun({BackfillConfig(<<1>>, 1)}, BOOLEAN, {None}, MaxUpdates + 1, 0)

CatchUpUpdate == \E message \in CatchUpMessages : NewMessage(message)

NextCatchUp ==
    \/ CatchUpUpdate
    \/ FetchDone
    \/ RewriteDone
    \/ EditDone

SpecCatchUp == InitCatchUp /\ [][NextCatchUp]_vars

(***************************************************************************)
(* SpecAssembly: one conversation under each context depth from 0 to       *)
(* MaxLimit, without an override; the operator's and the peer's messages,  *)
(* blank or not, arrive one after the other.                               *)
(***************************************************************************)
AssemblyMessages ==
    [id : MsgIds \cup {3}, chat_id : {1}, reply_to : {None},
     topic_create : {FALSE}, text : UpdateTexts, outgoing : BOOLEAN,
     peer_name : PeerNames, date : {startup_unix}]

InitAssembly ==
    InitRun({BackfillConfig(<<1>>, n) : n \in 0..MaxLimit}, {FALSE}, {None},
            MaxUpdates + 1, 0)

AssemblyUpdate == \E message \in AssemblyMessages : NewMessage(message)

NextAssembly ==
    \/ AssemblyUpdate
    \/ FetchDone
    \/ RewriteDone
    \/ EditDone

SpecAssembly == InitAssembly /\ [][NextAssembly]_vars

(***************************************************************************)
(* SpecHotReload: the watcher task and the loop side by side.  The file is *)
(* saved up to MaxEvents times with a policy or with text that does not    *)
(* parse, other files of the directory change in between, and the loop     *)
(* handles a message of the operator meanwhile.  The task's steps, the     *)
(* hot-config branch and the returns of the external calls are weakly fair.*)
(***************************************************************************)
StartupPolicy == BackfillConfig(<<1>>, 1)

SavedPolicies ==
    {StartupPolicy, BackfillConfig(<<1, 2>>, 0), BackfillConfig(<<2>>, MaxLimit)}

HotReloadFiles == {Err} \cup {Ok(hc) : hc \in SavedPolicies}

HotReloadEvents ==
    {event \in FsEvents :
        /\ event.kind = EventKind("Modify", "Data")
        /\ event.paths \in {<<WatchedPath>>, <<<<"d", "o">>>>}}

InitHotReload ==
    InitWatched({StartupPolicy}, {FALSE}, {Some(<<"c">>)}, MaxUpdates - 1,
                MaxEvents)

\* what the file yields changes only with an event that reports a save
HotReloadEvent ==
    \E event \in HotReloadEvents, file \in HotReloadFiles :
        /\ file # config_file => Saves(event)
        /\ FsNotify(event, file)

NextHotReload ==
    \/ HotReloadEvent
    \/ WatcherRecv
    \/ WatcherSlept
    \/ WatcherLoad
    \/ HotConfigChanged
    \/ ReloadUpdate
    \/ FetchDone
    \/ EditDone

SpecHotReload ==
    /\ InitHotReload
    /\ [][NextHotReload]_vars
    /\ WF_vars(WatcherRecv)
    /\ WF_vars(WatcherSlept)
    /\ WF_vars(WatcherLoad)
    /\ WF_vars(HotConfigChanged)
    /\ WF_vars(FetchDone)
    /\ WF_vars(EditDone)

(***************************************************************************)
(* SpecEdited: one conversation at depth MaxLimit without an override; the *)
(* operator's messages are rewritten and edited, the platform reports the  *)
(* edits, and a message id can be delivered again with the rewritten text. *)
(***************************************************************************)
EditedTexts == {<<" ", "a">>, <<"c">>}

EditedMessages ==
    [id : MsgIds, chat_id : {1}, reply_to : {None}, topic_create : {FALSE},
     text : EditedTexts, outgoing : {TRUE}, peer_name : {None},
     date : {startup_unix}]

InitEdited ==
    InitRun({BackfillConfig(<<1>>, MaxLimit)}, {FALSE}, {None},
            MaxUpdates + 1, 0)

EditedUpdate == \E message \in EditedMessages : NewMessage(message)

NextEdited ==
    \/ EditedUpdate
    \/ UpdateOther
    \/ FetchDone
    \/ RewriteDone
    \/ EditDone

SpecEdited == InitEdited /\ [][NextEdited]_vars

(***************************************************************************)
(* Properties of the pipeline.                                             *)
(***************************************************************************)
Keys == Chats \X MsgIds

\* an edit call for key succeeded no more than the dedupe window ago
EditedWithinWindow(key) ==
    \E i \in DOMAIN edit_calls :
        /\ edit_calls[i].ok
        /\ <<edit_calls[i].chat_id, edit_calls[i].message_id>> = key
        /\ now - edit_calls[i].at <= DEDUPE_TTL_SECONDS

IsEvent(entry, kind, key) ==
    /\ entry.kind = kind
    /\ <<entry.chat_id, entry.message_id>> = key

\* C1: whenever a backfill fetch, a rewrite call or an edit call is in flight
\* for a message, no edit call for the same (conversation, message id) has
\* succeeded within the last 300 seconds; so an update handled inside the
\* window of a successful edit starts none of the three calls.
C1_AtMostOnceEdit ==
    pc \in {"fetch", "rewrite", "edit"} =>
        ~EditedWithinWindow(<<msg.chat_id, msg.id>>)

\* the same outgoing message was delivered again inside the window of its
\* successful edit, and the handler returned without starting a call
C1_Witness ==
    /\ pc = "select"
    /\ \E key \in Keys, i, j \in DOMAIN trace :
           /\ i < j
           /\ IsEvent(trace[i], "MessageEdited", key)
           /\ IsEvent(trace[j], "MonitoredUpdate", key)
           /\ trace[j].info.outgoing
           /\ EditedWithinWindow(key)

InsertedEntry(key) ==
    /\ key \in DOMAIN dedupe_cache'.entries
    /\ \/ key \notin DOMAIN dedupe_cache.entries
       \/ dedupe_cache'.entries[key] # dedupe_cache.entries[key]

EmittedMessageEdited(key) ==
    /\ Len(trace') = Len(trace) + 1
    /\ IsEvent(trace'[Len(trace')], "MessageEdited", key)

EditCallSucceeded(key) ==
    /\ Len(edit_calls') = Len(edit_calls) + 1
    /\ edit_calls'[Len(edit_calls')].ok
    /\ <<edit_calls'[Len(edit_calls')].chat_id,
         edit_calls'[Len(edit_calls')].message_id>> = key

InsertAndEventIffEditSucceeded ==
    \A key \in Keys :
        /\ InsertedEntry(key) <=> EditCallSucceeded(key)
        /\ EmittedMessageEdited(key) <=> EditCallSucceeded(key)

\* C2: in every step, a dedupe entry for (conversation, message id) is
\* inserted exactly when the edit call for that message returned success, and
\* a message-edited event for it is emitted exactly then; a failed edit call
\* records nothing.
C2_DedupeAndEventIffEditSucceeded == [][InsertAndEventIffEditSucceeded]_vars

\* an edit call for a message failed, the message was delivered again, and
\* this time its edit call succeeded and was recorded
C2_Witness ==
    \E key \in Keys, i, j \in DOMAIN edit_calls :
        /\ i < j
        /\ <<edit_calls[i].chat_id, edit_calls[i].message_id>> = key
        /\ <<edit_calls[j].chat_id, edit_calls[j].message_id>> = key
        /\ ~edit_calls[i].ok
        /\ edit_calls[j].ok
        /\ key \in DOMAIN dedupe_cache.entries
        /\ IsEvent(trace[Len(trace)], "MessageEdited", key)

ScopeOf(message) ==
    ContextScope(message.chat_id, message_topic_root_id(message))

AtMostOneFetchPerScope ==
    \A scope \in DOMAIN hist.fetch_calls : Len(hist.fetch_calls[scope]) <= 1

HydratedBeforeFetch ==
    pc = "fetch" => ScopeOf(msg) \in context_cache.hydrated_scopes

\* C12: for every scope, at most one fetch_context call has been started
\* since the scope's conversation was last dropped from the monitored set by
\* a reload, whatever the fetch returned and whatever the context depth now
\* is; and while a fetch is in flight its scope is already marked hydrated.
C12_BackfillAtMostOncePerScope == AtMostOneFetchPerScope /\ HydratedBeforeFetch

\* a later message of a scope fetched for an earlier message goes on without a
\* fetch although the cache holds fewer messages than the depth a reload has
\* raised; the conversation's other scope has had its own fetch
C12_Witness ==
    /\ pc = "edit"
    /\ \E other \in DOMAIN hist.fetch_calls :
           /\ other # ScopeOf(msg)
           /\ other.chat_id = msg.chat_id
    /\ ScopeOf(msg) \in DOMAIN hist.fetch_calls
    /\ hist.fetch_calls[ScopeOf(msg)] # <<msg.id>>
    /\ Len(recent_before(context_cache, ScopeOf(msg), msg.id,
                         active.hot_config.rewrite.context_messages))
           < active.hot_config.rewrite.context_messages
    /\ active.hot_config.rewrite.context_messages > 1

CachedScopes ==
    (DOMAIN context_cache.entries) \cup context_cache.hydrated_scopes

\* C13: the context cache holds message sequences and hydration flags only
\* for conversations of the active monitored set, at every moment of the run
\* and so whenever the loop waits for its next event; a reload that drops a
\* conversation therefore leaves none of its scopes and none of its flags.
C13_CacheOnlyForMonitored ==
    /\ monitored_chats = active.monitored_chats
    /\ \A scope \in CachedScopes : scope.chat_id \in monitored_chats

\* conversation 2 was monitored and a rewrite call for one of its messages
\* was given context, a reload has dropped it, and the loop is waiting
C13_Witness ==
    /\ pc = "select"
    /\ 2 \notin monitored_chats
    /\ \E i \in DOMAIN hist.rewrite_calls :
           /\ hist.rewrite_calls[i].chat_id = 2
           /\ hist.rewrite_calls[i].context # <<>>
    /\ \A scope \in CachedScopes : scope.chat_id # 2

UpdateTaken == updates_left' = updates_left - 1

programVars == <<pc, msg, context, candidate, active, monitored_chats,
                 dedupe_cache, context_cache, hot_value, hot_changed, options>>

UnmonitoredMessageIgnored ==
    (/\ UpdateTaken
     /\ hist'.handled.kind = "new_message"
     /\ hist'.handled.message.chat_id \notin active.monitored_chats)
    => /\ UNCHANGED programVars
       /\ UNCHANGED <<trace, edit_calls>>
       /\ hist'.fetch_calls = hist.fetch_calls

OtherUpdateIgnoredAndReported ==
    (UpdateTaken /\ hist'.handled.kind \in OtherUpdateKinds)
    => /\ UNCHANGED programVars
       /\ trace' = Append(trace, Entry("UnsupportedUpdateIgnored", 0, 0,
                                       hist'.handled.kind))

\* C14: a new message whose conversation is not in the active policy's
\* monitored set changes no cache and no other state and starts no call, so
\* only monitored conversations are observed and dispatched; an update of
\* any other kind changes no state and is reported as
\* unsupported-update-ignored with its kind.
C14_OnlyMonitoredDispatched ==
    [][UnmonitoredMessageIgnored /\ OtherUpdateIgnoredAndReported]_vars

\* an update of another kind was reported, then the operator's own non-blank
\* message arrived from a conversation that is not monitored
C14_Witness ==
    /\ hist.handled.kind = "new_message"
    /\ hist.handled.message.chat_id \notin monitored_chats
    /\ hist.handled.message.outgoing
    /\ Trim(hist.handled.message.text) # <<>>
    /\ updates_left = MaxUpdates - 2
    /\ pc = "select"
    /\ Len(trace) = 1
    /\ trace[1].kind = "UnsupportedUpdateIgnored"
    /\ trace[1].info = "message_edited"

InFlight == pc \in {"fetch", "rewrite", "edit"}

CallsOnlyForOwnMonitoredText ==
    InFlight =>
        /\ msg.outgoing
        /\ msg.chat_id \in active.monitored_chats
        /\ Trim(msg.text) # <<>>
        /\ <<msg.chat_id, msg.id>> \notin DOMAIN dedupe_cache.entries

NotOwnMessageDropped ==
    (/\ UpdateTaken
     /\ hist'.handled.kind = "new_message"
     /\ ~hist'.handled.message.outgoing)
    => /\ pc' = "select"
       /\ context_cache'.hydrated_scopes = context_cache.hydrated_scopes
       /\ dedupe_cache' = dedupe_cache
       /\ edit_calls' = edit_calls
       /\ hist'.fetch_calls = hist.fetch_calls
       /\ hist'.rewrite_calls = hist.rewrite_calls

\* C15: while a fetch, rewrite or edit call is in flight, its message is the
\* operator's own, of a monitored conversation, with non-empty trimmed text
\* and without a dedupe entry; and a step that takes a message not authored
\* by the operator starts no call, marks no scope hydrated and inserts no
\* dedupe entry.
C15_CallsOnlyForOwnMessages ==
    []CallsOnlyForOwnMonitoredText /\ [][NotOwnMessageDropped]_vars

\* after an edit of an own message, another participant's non-blank message
\* arrived in a monitored scope that a fetch could still be started for
C15_Witness ==
    /\ pc = "select"
    /\ hist.handled.kind = "new_message"
    /\ ~hist.handled.message.outgoing
    /\ Trim(hist.handled.message.text) # <<>>
    /\ hist.handled.message.chat_id \in monitored_chats
    /\ ScopeOf(hist.handled.message) \notin context_cache.hydrated_scopes
    /\ active.hot_config.rewrite.context_messages > 0
    /\ Len(edit_calls) = 1

\* the text the pipeline holds after trimming and truncation
Final(text) ==
    truncate_to_telegram_limit(Trim(text), TELEGRAM_MESSAGE_MAX_CHARS)

IsNoOp(text, message) ==
    Final(text) = <<>> \/ Final(text) = Trim(message.text)

RewriteReturned == Len(hist'.rewrite_calls) = Len(hist.rewrite_calls) + 1

LastRewrite == hist.rewrite_calls[Len(hist.rewrite_calls)]

\* the text handed to the edit call is the override or the model's answer,
\* trimmed and truncated, and that text is non-empty and not the original
EditOnlyOfChangedText ==
    pc = "edit" =>
        LET rewritten == IF IsSome(options.rewrite_override)
                         THEN Unwrap(options.rewrite_override)
                         ELSE LastRewrite.result.value
        IN  /\ candidate = Final(rewritten)
            /\ ~IsNoOp(rewritten, msg)

NoOpRewriteDropped ==
    (/\ RewriteReturned
     /\ LastRewrite'.result.ok
     /\ IsNoOp(LastRewrite'.result.value, msg))
    => /\ pc' = "select"
       /\ dedupe_cache' = dedupe_cache
       /\ trace' = trace
       /\ edit_calls' = edit_calls

\* only the return of an edit call adds an edit call, a dedupe entry or a
\* message-edited event
RecordedOnlyByEditReturn ==
    pc # "edit" =>
        /\ edit_calls' = edit_calls
        /\ DOMAIN dedupe_cache'.entries \subseteq DOMAIN dedupe_cache.entries
        /\ \/ trace' = trace
           \/ trace'[Len(trace')].kind # "MessageEdited"

\* C16: an edit call is in flight only with a text that is non-empty and
\* differs from the trimmed original; when the rewritten text, trimmed and
\* truncated, is empty or equal to the trimmed original, the step that
\* obtains it returns to the loop with no edit call started, no dedupe entry
\* recorded and no message-edited event emitted.
C16_NoOpFilters ==
    /\ []EditOnlyOfChangedText
    /\ [][NoOpRewriteDropped /\ RecordedOnlyByEditReturn]_vars

\* the model returned exactly the trimmed original of a message typed with
\* surrounding whitespace, and nothing was edited or recorded
C16_Witness ==
    /\ pc = "select"
    /\ hist.rewrite_calls # <<>>
    /\ LastRewrite.result.ok
    /\ LastRewrite.message_id = hist.handled.message.id
    /\ LastRewrite.result.value = Trim(hist.handled.message.text)
    /\ hist.handled.message.text # Trim(hist.handled.message.text)
    /\ edit_calls = <<>>
    /\ dedupe_cache.entries = <<>>
    /\ \A i \in DOMAIN trace : trace[i].kind # "MessageEdited"

FailedRewriteDropped ==
    (RewriteReturned /\ ~LastRewrite'.result.ok)
    => /\ pc' = "select"
       /\ msg' = NoMsg
       /\ dedupe_cache' = dedupe_cache
       /\ context_cache' = context_cache
       /\ edit_calls' = edit_calls
       /\ trace' = trace

\* every rewrite call belongs to an update of its own
OneRewritePerUpdate ==
    Len(hist.rewrite_calls) + (IF pc \in {"fetch", "rewrite"} THEN 1 ELSE 0)
        <= MaxUpdates - updates_left

\* C17: the step in which the rewrite call returns an error returns to the
\* loop with the message dropped: no edit call, no dedupe entry, no event;
\* and no update ever gets a second rewrite call.
C17_FailedRewriteDropsMessage ==
    []OneRewritePerUpdate /\ [][FailedRewriteDropped]_vars

\* the rewrite call for one message failed and nothing was edited; the loop
\* took the next update, whose rewrite call succeeded
C17_Witness ==
    /\ Len(hist.rewrite_calls) = 2
    /\ ~hist.rewrite_calls[1].result.ok
    /\ hist.rewrite_calls[2].result.ok
    /\ hist.rewrite_calls[2].message_id # hist.rewrite_calls[1].message_id
    /\ pc = "edit"
    /\ edit_calls = <<>>
    /\ dedupe_cache.entries = <<>>

\* the length of text in UTF-16 code units
Utf16Units(text) ==
    Len(text) + Cardinality({i \in DOMAIN text : text[i] \in Astral})

\* C18: truncate_to_telegram_limit(input, max) is a prefix of input made of
\* whole characters, of at most max UTF-16 code units (2 for a character
\* outside the BMP, 1 otherwise), and no longer prefix fits; it is input
\* itself when input fits.
C18_TruncateLongestFittingPrefix ==
    call.op = "truncate" =>
        /\ Len(call.result_seq) <= Len(call.text)
        /\ call.result_seq = SubSeq(call.text, 1, Len(call.result_seq))
        /\ Utf16Units(call.result_seq) <= call.count
        /\ \A k \in 0..Len(call.text) :
               Utf16Units(SubSeq(call.text, 1, k)) <= call.count
                   => k <= Len(call.result_seq)
        /\ Utf16Units(call.text) <= call.count => call.result_seq = call.text

\* four two-unit characters with limit 6 keep three
C18_Witness ==
    /\ call.op = "truncate"
    /\ call.text = <<"E", "E", "E", "E">>
    /\ call.count = 6
    /\ call.result_seq = <<"E", "E", "E">>

ReloadRan == Len(hist'.reloads) = Len(hist.reloads) + 1

LastReload == hist.reloads[Len(hist.reloads)]

FailedReloadPublishesNothing ==
    (ReloadRan /\ ~LastReload'.loaded.ok)
    => /\ UNCHANGED <<hot_value, hot_changed, active, monitored_chats,
                      context_cache>>
       /\ UNCHANGED <<pc, msg, dedupe_cache>>

\* C19: the step in which load_hot_config fails (unreadable or unparsable
\* file, validation error) leaves the channel's value and its changed mark,
\* the active policy, the monitored set and the context cache unchanged and
\* does not move the loop, which goes on to take later reloads and updates.
C19_FailedReloadPublishesNothing == [][FailedReloadPublishesNothing]_vars

\* a reload failed on validation; the next reload was published, the loop
\* applied it and then edited a message under the new policy
C19_Witness ==
    /\ Len(hist.reloads) = 2
    /\ hist.reloads[1].file.ok
    /\ ~hist.reloads[1].loaded.ok
    /\ hist.reloads[2].loaded.ok
    /\ active.hot_config = hist.reloads[2].loaded.value
    /\ Len(edit_calls) = 1
    /\ edit_calls[1].ok
    /\ edit_calls[1].chat_id \in active.monitored_chats
    /\ pc = "select"

Published == hot_value' # hot_value \/ hot_changed' # hot_changed

\* the file holds what it held at the reload before
Resaved ==
    /\ ReloadRan
    /\ hist.reloads # <<>>
    /\ LastReload'.file = LastReload.file

SameAsActiveNotPublished ==
    (/\ ReloadRan
     /\ LastReload'.loaded.ok
     /\ LastReload'.loaded.value = active.hot_config) => ~Published

SameAsChannelNotPublished ==
    (/\ ReloadRan
     /\ LastReload'.loaded.ok
     /\ LastReload'.loaded.value = hot_value) => ~Published

\* C20 as stated: a reload whose parsed policy equals the active policy
\* publishes nothing, and a reload of a file with the content it had at the
\* reload before publishes nothing.
C20_UnchangedFromActiveNotPublished ==
    [][SameAsActiveNotPublished /\ (Resaved => ~Published)]_vars

\* C20 amended: a reload whose parsed policy equals, by value, the policy the
\* channel holds publishes nothing, and a reload of a file with the content
\* it had at the reload before publishes nothing.
C20_UnchangedFromChannelNotPublished ==
    [][SameAsChannelNotPublished /\ (Resaved => ~Published)]_vars

\* a changed policy was published and applied, then the file was saved again
\* with the same content, and the channel shows no change
C20_Witness ==
    /\ Len(hist.reloads) = 2
    /\ hist.reloads[2].file = hist.reloads[1].file
    /\ hist.reloads[1].loaded.ok
    /\ hot_value = hist.reloads[1].loaded.value
    /\ active.hot_config = hot_value
    /\ ~hot_changed
    /\ context_cache.per_chat_limit = hot_value.rewrite.context_messages
    /\ reloads_left = 0


(***************************************************************************)
(* Properties of the hot-config channel and of the loop.                   *)
(***************************************************************************)
PublishedReloads == {i \in DOMAIN hist.reloads : hist.reloads[i].published}

\* the policy of the latest reload that was published
LatestPublished ==
    hist.reloads[CHOOSE i \in PublishedReloads :
                     \A j \in PublishedReloads : j <= i].loaded.value

\* the hot-config branch of the loop ran
ChangeHandled == hot_changed /\ ~hot_changed'

HandlesLatestPublished ==
    ChangeHandled =>
        /\ pc = "select"
        /\ PublishedReloads # {}
        /\ \/ active'.hot_config = LatestPublished
           \/ active' = active
        /\ active'.hot_config = LatestPublished =>
               /\ monitored_chats' = SeqRange(LatestPublished.rewrite.chats)
               /\ context_cache'.per_chat_limit =
                      LatestPublished.rewrite.context_messages

\* the branch is woken only by a publish, and only the branch replaces the
\* active policy
OneHandlingPerWake ==
    /\ (~hot_changed /\ hot_changed') => (ReloadRan /\ LastReload'.published)
    /\ active' # active => ChangeHandled

ChannelHoldsLatestPublished ==
    /\ hot_changed => PublishedReloads # {}
    /\ PublishedReloads # {} => hot_value = LatestPublished
    /\ PublishedReloads = {} => hot_value = active.hot_config

\* C21: the channel holds the policy of the latest publish; the hot-config
\* branch runs only while the loop is between handlers, once per wake, and
\* the policy it applies is the latest published one, whatever was published
\* and overwritten since the branch last ran.
C21_LatestPolicyAppliedOnce ==
    /\ []ChannelHoldsLatestPublished
    /\ [][HandlesLatestPublished /\ OneHandlingPerWake]_vars

\* two different policies were published while the one update taken was
\* being handled, the second over the unread first; the loop then ran the
\* branch once and has the second policy active
C21_Witness ==
    /\ Len(hist.reloads) = 2
    /\ hist.reloads[1].published
    /\ hist.reloads[2].published
    /\ hist.reloads[1].loaded.value.rewrite.chats
           # hist.reloads[2].loaded.value.rewrite.chats
    /\ Cardinality({i \in DOMAIN trace : trace[i].kind = "MonitoredUpdate"}) = 1
    /\ Len(hist.swaps) = 1
    /\ hist.swaps[1].ok
    /\ active.hot_config = hist.reloads[2].loaded.value
    /\ monitored_chats = SeqRange(hist.reloads[2].loaded.value.rewrite.chats)
    /\ ~hot_changed
    /\ pc = "select"


\* the hot-config branch ran and made the channel's policy the active one
ChangeAccepted == ChangeHandled /\ active'.hot_config = hot_value

ContextCacheReconciled(cache, policy) ==
    /\ \A scope \in DOMAIN cache.entries :
           /\ scope.chat_id \in SeqRange(policy.rewrite.chats)
           /\ Len(cache.entries[scope]) <= policy.rewrite.context_messages
    /\ \A scope \in cache.hydrated_scopes :
           scope.chat_id \in SeqRange(policy.rewrite.chats)
    /\ cache.per_chat_limit = policy.rewrite.context_messages

DedupeCacheReconciled(cache, policy) ==
    \A key \in DOMAIN cache.entries : key[1] \in SeqRange(policy.rewrite.chats)

ContextCacheReconciledOnSwap ==
    [][ChangeAccepted => ContextCacheReconciled(context_cache', hot_value)]_vars

\* C22: after the step in which the hot-config branch accepts a policy,
\* neither the context cache nor the dedupe cache holds an entry of a
\* conversation outside the policy's monitored set, and every scope of the
\* context cache holds at most the policy's context depth.
C22_BothCachesReconciledOnSwap ==
    [][ChangeAccepted =>
           /\ ContextCacheReconciled(context_cache', hot_value)
           /\ DedupeCacheReconciled(dedupe_cache', hot_value)]_vars


SwapRan == Len(hist'.swaps) = Len(hist.swaps) + 1

LastSwap == hist.swaps[Len(hist.swaps)]

RejectedSwapChangesNothing ==
    (SwapRan /\ ~LastSwap'.ok)
    => /\ UNCHANGED <<active, monitored_chats, context_cache, dedupe_cache>>
       /\ pc' = "select"
       /\ ~hot_changed'

\* from_hot_config fails on a blank api key or model
BlankCredentialsRejected ==
    \A file \in ConfigFiles :
        (file.ok /\ ~validate_openai_config(file.value))
            => ~ActiveRewriteState_from_hot_config(file.value, TRUE).ok

\* C23: the step in which from_hot_config fails for the policy read from
\* the channel leaves the active policy, the platform client's monitored
\* set, the context cache (sequences, capacity, hydration flags) and the
\* dedupe cache unchanged and the loop at its select point; a policy with a
\* blank api key or model is one from_hot_config fails for.
C23_RejectedSwapKeepsState ==
    []BlankCredentialsRejected /\ [][RejectedSwapChangesNothing]_vars

\* a policy that drops conversation 2 was published and rejected while the
\* cache held a hydrated scope of conversation 2; the next published policy
\* was accepted
C23_Witness ==
    /\ Len(hist.swaps) = 2
    /\ ~hist.swaps[1].ok
    /\ hist.swaps[2].ok
    /\ 2 \notin SeqRange(hist.swaps[1].value.rewrite.chats)
    /\ hist.swaps[1].value.rewrite.context_messages = 0
    /\ active.hot_config = hist.swaps[2].value
    /\ \E scope \in context_cache.hydrated_scopes :
           /\ scope.chat_id = 2
           /\ scope \in DOMAIN context_cache.entries
           /\ context_cache.entries[scope] # <<>>
    /\ pc = "select"


Stopped == pc \in {"closing", "returned_ok", "returned_err"}

\* while a handler is in progress no other source is served
HandlerRunsAlone ==
    InFlight =>
        /\ UNCHANGED <<active, monitored_chats, updates_left>>
        /\ context_cache'.per_chat_limit = context_cache.per_chat_limit
        /\ hist'.handled = hist.handled
        /\ hist'.swaps = hist.swaps
        /\ ~Stopped'
        /\ pc' # "select" => msg' = msg

\* a step of the loop serves one source
OneSourcePerIteration ==
    Cardinality({source \in {"update", "hot_config", "shutdown"} :
                    \/ source = "update" /\ UpdateTaken
                    \/ source = "hot_config" /\ SwapRan
                    \/ source = "shutdown" /\ pc = "select" /\ pc' = "closing"})
        <= 1

\* the pipeline works under the active policy, whose monitored set and
\* depth the platform client and the cache hold
PipelineUnderActivePolicy ==
    InFlight =>
        /\ monitored_chats = active.monitored_chats
        /\ context_cache.per_chat_limit =
               active.hot_config.rewrite.context_messages
        /\ msg = hist.handled.message

\* C24: while the pipeline of a message is in progress (a fetch, rewrite or
\* edit call awaited) no step applies a hot-config change, takes another
\* update or acts on the shutdown signal, so the active policy, the
\* monitored set and the cache capacity stay the same for the whole run of
\* the pipeline; and every step of the loop serves one source only.
C24_HandlersDoNotOverlap ==
    /\ []PipelineUnderActivePolicy
    /\ [][HandlerRunsAlone /\ OneSourcePerIteration]_vars

\* an edit call is awaited after the fetch and the rewrite call returned,
\* while a changed policy is published and unread, the shutdown signal has
\* fired and the stream has more updates
C24_Witness ==
    /\ pc = "edit"
    /\ hist.fetched # None
    /\ hist.rewrite_calls # <<>>
    /\ hot_changed
    /\ hot_value # active.hot_config
    /\ shutdown_signal
    /\ updates_left > 0


KeysOf(entries) ==
    [i \in DOMAIN entries |-> <<entries[i].chat_id, entries[i].message_id>>]

\* the monitored messages taken from the stream, in arrival order
Arrivals(chat_id) ==
    KeysOf(SelectSeq(trace, LAMBDA entry :
                                /\ entry.kind = "MonitoredUpdate"
                                /\ entry.chat_id = chat_id))

EditedEvents(chat_id) ==
    KeysOf(SelectSeq(trace, LAMBDA entry :
                                /\ entry.kind = "MessageEdited"
                                /\ entry.chat_id = chat_id))

EditCallsOf(chat_id) ==
    KeysOf(SelectSeq(edit_calls, LAMBDA edit : edit.chat_id = chat_id))

RECURSIVE IsSubsequence(_, _)
IsSubsequence(a, b) ==
    IF a = <<>> THEN TRUE
    ELSE IF b = <<>> THEN FALSE
    ELSE IF Head(a) = Head(b) THEN IsSubsequence(Tail(a), Tail(b))
    ELSE IsSubsequence(a, Tail(b))

EditsInArrivalOrder ==
    \A chat_id \in Chats :
        /\ IsSubsequence(EditCallsOf(chat_id), Arrivals(chat_id))
        /\ IsSubsequence(EditedEvents(chat_id), Arrivals(chat_id))
        /\ Len(EditCallsOf(chat_id)) <= Len(Arrivals(chat_id))

\* an update is taken only when no call of an earlier update is awaited,
\* and an edit call that returns is the one of the last update taken
EditReturnsBeforeNextUpdate ==
    /\ UpdateTaken => pc = "select"
    /\ edit_calls' # edit_calls =>
           /\ pc = "edit" /\ pc' = "select"
           /\ edit_calls' =
                  Append(edit_calls,
                         EditCall(hist.handled.message.chat_id,
                                  hist.handled.message.id,
                                  edit_calls'[Len(edit_calls')].ok, now))
           /\ UNCHANGED updates_left

\* C25: an update is taken only after the edit call of every earlier update
\* has returned, each edit call belongs to the last update taken, and in
\* every conversation the edit calls and the message-edited events, in
\* order, form a subsequence of the messages in arrival order.
C25_EditsInArrivalOrder ==
    []EditsInArrivalOrder /\ [][EditReturnsBeforeNextUpdate]_vars

\* message 2 arrived and was edited, then message 1 arrived and was edited
C25_Witness ==
    /\ Arrivals(1) = <<<<1, 2>>, <<1, 1>>>>
    /\ EditCallsOf(1) = <<<<1, 2>>, <<1, 1>>>>
    /\ EditedEvents(1) = <<<<1, 2>>, <<1, 1>>>>
    /\ pc = "select"


\* after the loop has taken the shutdown signal no handler runs
NothingHandledAfterStop ==
    Stopped =>
        /\ UNCHANGED <<updates_left, active, monitored_chats, context_cache,
                       dedupe_cache, msg, trace, edit_calls>>
        /\ hist'.handled = hist.handled
        /\ hist'.swaps = hist.swaps
        /\ hist'.rewrite_calls = hist.rewrite_calls
        /\ Stopped'

\* the signal is acted on between handlers only
StopTakenBetweenHandlers ==
    (~Stopped /\ Stopped') =>
        /\ pc = "select" /\ pc' = "closing"
        /\ shutdown_signal
        /\ msg = NoMsg

ClosedOnceBeforeReturn ==
    /\ Len(hist.closes) <= 1
    /\ pc = "returned_ok" <=> hist.closes = <<TRUE>>
    /\ pc = "returned_err" <=> hist.closes = <<FALSE>>
    /\ pc = "closing" => hist.closes = <<>>

CloseFollowsStop == hist'.closes # hist.closes => pc = "closing"

\* C26: the shutdown signal is acted on only when the loop is between
\* handlers; from then on no update is taken, no hot-config change applied
\* and no call made; bot.shutdown() runs once, after the loop stopped, and
\* the run returns after it, with an error exactly when the close failed.
C26_OrderlyShutdown ==
    /\ []ClosedOnceBeforeReturn
    /\ [][NothingHandledAfterStop /\ StopTakenBetweenHandlers
             /\ CloseFollowsStop]_vars

\* the run returned the error of a failed close, after an edit, with a
\* published policy never applied and updates never taken
C26_Witness ==
    /\ pc = "returned_err"
    /\ hist.closes = <<FALSE>>
    /\ Len(edit_calls) = 1
    /\ hot_changed
    /\ hot_value # active.hot_config
    /\ updates_left > 0


StreamErrorChangesNothing ==
    (UpdateTaken /\ hist'.handled.kind = "error")
    => /\ UNCHANGED <<context_cache, dedupe_cache, active, monitored_chats,
                      trace, edit_calls>>
       /\ pc' = "select"

FetchReturnedNow == pc = "fetch" /\ pc' # "fetch"

\* the loop is running and between handlers after each failure
FailureLeavesLoopRunning ==
    /\ (FetchReturnedNow /\ ~Unwrap(hist'.fetched).result.ok)
           => pc' \in {"rewrite", "edit", "select"}
    /\ (RewriteReturned /\ ~LastRewrite'.result.ok) => pc' = "select"
    /\ (/\ edit_calls' # edit_calls
        /\ ~edit_calls'[Len(edit_calls')].ok) => pc' = "select"
    /\ (ReloadRan /\ ~LastReload'.loaded.ok) => pc' = pc
    /\ (SwapRan /\ ~LastSwap'.ok) => pc' = "select"

OnlyShutdownStops ==
    (~Stopped /\ Stopped') => (pc = "select" /\ shutdown_signal)

\* between handlers the loop takes whatever the stream delivers next
NextEventCanBeHandled ==
    (pc = "select" /\ updates_left > 0) =>
        ENABLED (UpdateError \/ UpdateOther \/ LoopUpdate)

\* C27: the loop stops only by taking the shutdown signal; the steps in
\* which the update stream reports an error, a fetch, rewrite or edit call
\* fails, a reload fails or a published policy is rejected leave the loop
\* running, back at (or on its way to) the select point where it takes the
\* next event; a stream error changes neither cache nor the active policy.
C27_OnlyShutdownEndsLoop ==
    /\ [](Stopped => shutdown_signal)
    /\ []NextEventCanBeHandled
    /\ [][OnlyShutdownStops /\ StreamErrorChangesNothing
             /\ FailureLeavesLoopRunning]_vars

\* a stream error, a failed reload, a rejected policy, a message whose edit
\* call failed and a message whose fetch and rewrite calls failed have all
\* happened, and the loop is at its select point with the signal not fired
C27_Witness ==
    /\ pc = "select"
    /\ ~shutdown_signal
    /\ Len(hist.reloads) = 2
    /\ \E i \in 1..2 : ~hist.reloads[i].loaded.ok
    /\ Len(hist.swaps) = 1 /\ ~hist.swaps[1].ok
    /\ Len(edit_calls) = 1 /\ ~edit_calls[1].ok
    /\ Len(hist.rewrite_calls) = 2
    /\ ~hist.rewrite_calls[2].result.ok
    /\ hist.fetched # None
    /\ ~Unwrap(hist.fetched).result.ok
    /\ Unwrap(hist.fetched).message_id = hist.rewrite_calls[2].message_id
    /\ Unwrap(hist.fetched).chat_id = hist.rewrite_calls[2].chat_id
    /\ Len(trace) = 2
    /\ \A i \in DOMAIN trace : trace[i].kind = "MonitoredUpdate"
    /\ updates_left = MaxUpdates + 1 - 3


Edited(message_id) ==
    \E i \in DOMAIN trace :
        trace[i].kind = "MessageEdited" /\ trace[i].message_id = message_id

EditsSucceed == \A i \in DOMAIN edit_calls : edit_calls[i].ok

LastFetch == Unwrap(hist.fetched)

\* the step that starts a fetch only observes the message and sets the flag
FetchStartOnlyMarksScope ==
    (pc = "select" /\ pc' = "fetch") =>
        LET scope == ScopeOf(msg')
            observed == observe_update_message(context_cache, scope, msg')
        IN  /\ context_cache'.entries = observed.entries
            /\ context_cache'.per_chat_limit = context_cache.per_chat_limit
            /\ context_cache'.hydrated_scopes =
                   context_cache.hydrated_scopes \cup {scope}
            /\ scope \notin context_cache.hydrated_scopes

FetchedReplacesCached ==
    (FetchReturnedNow /\ LastFetch'.result.ok) =>
        /\ context_cache' = context_cache
        /\ LastFetch'.cached = context
        /\ IF IsSome(options.rewrite_override)
           THEN pc' \in {"edit", "select"}
           ELSE pc' = "rewrite" /\ context' = LastFetch'.result.value

\* the rewrite call gets the context the pipeline holds when it is made
RewriteGotContext ==
    RewriteReturned =>
        /\ pc = "rewrite"
        /\ LastRewrite'.context = context
        /\ LastRewrite'.message_id = msg.id

\* C29: the step in which fetch_context returns Ok leaves the context cache
\* as it is and hands exactly the fetched sequence, not the cached one nor
\* a merge, to the rewrite step; the step that started the fetch changed
\* the cache only by observing the message and by setting the scope's
\* hydration flag.
C29_FetchedContextReplacesCached ==
    [][FetchStartOnlyMarksScope /\ FetchedReplacesCached
          /\ RewriteGotContext]_vars

\* the cache held one message of the scope, the fetch returned two others,
\* and the rewrite call is awaited with the two fetched messages only
C29_Witness ==
    /\ pc = "rewrite"
    /\ hist.fetched # None
    /\ LastFetch.message_id = msg.id
    /\ LastFetch.result.ok
    /\ Len(LastFetch.cached) = 1
    /\ Len(LastFetch.result.value) = 2
    /\ \A i \in 1..2 : LastFetch.result.value[i] # LastFetch.cached[1]
    /\ context = LastFetch.result.value
    /\ Len(ScopeMessages(context_cache, ScopeOf(msg))) = 2


FailedFetchContinues ==
    (FetchReturnedNow /\ ~LastFetch'.result.ok) =>
        /\ context_cache' = context_cache
        /\ ScopeOf(msg) \in context_cache'.hydrated_scopes
        /\ LastFetch'.cached = context
        /\ IF IsSome(options.rewrite_override)
           THEN pc' \in {"edit", "select"}
           ELSE pc' = "rewrite" /\ context' = context /\ msg' = msg

\* a message of a hydrated scope starts no fetch
HydratedScopeNotFetched ==
    (/\ UpdateTaken
     /\ hist'.handled.kind = "new_message"
     /\ ScopeOf(hist'.handled.message) \in context_cache.hydrated_scopes)
    => /\ pc' # "fetch"
       /\ hist'.fetch_calls = hist.fetch_calls

\* C30: the step in which fetch_context returns an error goes on to the
\* rewrite step with the context read from the cache and leaves the cache,
\* with the scope's hydration flag set, as it is; a later message of a
\* hydrated scope starts no fetch, so no scope gets a second fetch.
C30_FailedFetchDegradesOnly ==
    /\ []AtMostOneFetchPerScope
    /\ [][FailedFetchContinues /\ HydratedScopeNotFetched]_vars

\* the fetch for a message failed, its rewrite call was made with the one
\* cached message and its edit succeeded; the rewrite call of a later
\* message of the scope is awaited and no second fetch was started
C30_Witness ==
    /\ hist.fetched # None
    /\ ~LastFetch.result.ok
    /\ Len(LastFetch.cached) = 1
    /\ Len(hist.rewrite_calls) = 1
    /\ hist.rewrite_calls[1].message_id = LastFetch.message_id
    /\ hist.rewrite_calls[1].context = LastFetch.cached
    /\ Len(edit_calls) = 1
    /\ edit_calls[1].ok
    /\ edit_calls[1].message_id = LastFetch.message_id
    /\ pc = "rewrite"
    /\ msg.id # LastFetch.message_id
    /\ ScopeOf(msg) \in context_cache.hydrated_scopes
    /\ hist.fetch_calls[ScopeOf(msg)] = <<LastFetch.message_id>>

(***************************************************************************)
(* Properties of the rewrite override.                                     *)
(***************************************************************************)
\* normalize_rewrite_override keeps an override exactly when something is
\* left of it after trimming, and keeps it trimmed
OverrideKeptIffNotBlank ==
    \A raw \in RawOverrides :
        LET kept == normalize_rewrite_override(raw)
        IN  /\ IsSome(kept) <=> (IsSome(raw) /\ Trim(Unwrap(raw)) # <<>>)
            /\ IsSome(kept) => Unwrap(kept) = Trim(Unwrap(raw))

\* with an override the model is never called, and the text handed to
\* edit_message is the override
OverrideBypassesModel ==
    IsSome(options.rewrite_override) =>
        /\ Trim(Unwrap(options.rewrite_override)) = Unwrap(options.rewrite_override)
        /\ Unwrap(options.rewrite_override) # <<>>
        /\ pc # "rewrite"
        /\ hist.rewrite_calls = <<>>
        /\ pc = "edit" =>
               candidate = truncate_to_telegram_limit(
                               Unwrap(options.rewrite_override),
                               TELEGRAM_MESSAGE_MAX_CHARS)

\* once the context is assembled, at the update or when the fetch returns:
\* with an override process_message hands the override to edit_message,
\* unless the message already reads as the override; without one it calls
\* the model, and only the model's answer is handed to edit_message
CandidateFromOverrideOrModel ==
    /\ (pc = "fetch" /\ pc' # "fetch") =>
           IF IsSome(options.rewrite_override)
           THEN IF Trim(msg.text) = Unwrap(options.rewrite_override)
                THEN pc' = "select"
                ELSE pc' = "edit" /\ msg' = msg
           ELSE pc' = "rewrite" /\ msg' = msg
    /\ (pc = "select" /\ pc' \notin {"select", "fetch"}) =>
           IF IsSome(options.rewrite_override)
           THEN pc' = "edit"
           ELSE pc' = "rewrite"
    /\ (options.rewrite_override = None /\ pc # "edit" /\ pc' = "edit") =>
           pc = "rewrite"

\* C31: with a rewrite override configured llm.rewrite is never called and
\* the text handed to edit_message is the trimmed override; an override that
\* is absent, empty or blank leaves no override, and then every message that
\* passes the filters goes to the model call.
C31_OverrideBypassesModel ==
    /\ [](OverrideKeptIffNotBlank /\ OverrideBypassesModel)
    /\ [][CandidateFromOverrideOrModel]_vars

\* two messages were handed to edit_message with the override as their text,
\* the first after a fetch, and no model call was made
C31_Witness ==
    /\ options.rewrite_override = Some(<<"c">>)
    /\ Len(edit_calls) = 1
    /\ hist.fetched # None
    /\ hist.fetched[1].message_id = edit_calls[1].message_id
    /\ pc = "edit"
    /\ msg.id # edit_calls[1].message_id
    /\ candidate = <<"c">>
    /\ hist.rewrite_calls = <<>>

(***************************************************************************)
(* Properties of the observation of new messages.                          *)
(***************************************************************************)
\* the loop takes a new message of a monitored conversation
MonitoredMessageTaken ==
    /\ UpdateTaken
    /\ hist'.handled.kind = "new_message"
    /\ hist'.handled.message.chat_id \in monitored_chats

\* the message is in the scope's sequence under its id, with its trimmed
\* text and its sender's name
Holds(cache, message) ==
    \E i \in DOMAIN ScopeMessages(cache, ScopeOf(message)) :
        ScopeMessages(cache, ScopeOf(message))[i] =
            CachedContextMessage(
                message.id,
                ContextMessage(resolve_sender_name(message.outgoing,
                                                   message.peer_name),
                               Trim(message.text)))

\* the step that takes the message leaves the sequences as observing the
\* message leaves them, whoever wrote it and whatever the pipeline then does
ObservedWhateverTheOutcome ==
    MonitoredMessageTaken =>
        LET message == hist'.handled.message
            scope == ScopeOf(message)
            had == message.id \in SeqRange(Ids(ScopeMessages(context_cache, scope)))
        IN  /\ context_cache'.entries =
                   observe_update_message(context_cache, scope, message).entries
            /\ (Trim(message.text) # <<>> /\ context_cache.per_chat_limit > 0) =>
                   /\ message.id \in
                          SeqRange(Ids(ScopeMessages(context_cache', scope)))
                   /\ ~had => Holds(context_cache', message)
            /\ Trim(message.text) = <<>> =>
                   context_cache'.entries = context_cache.entries

\* the pipeline reads the cache as it is after the observation: the context
\* it assembles is the one recent_before returns on the observed cache
PipelineReadsObservedCache ==
    (MonitoredMessageTaken /\ pc' \in {"fetch", "rewrite"}) =>
        LET message == hist'.handled.message
        IN  /\ msg' = message
            /\ context' =
                   recent_before(
                       observe_update_message(context_cache, ScopeOf(message),
                                              message),
                       ScopeOf(message), message.id,
                       active.hot_config.rewrite.context_messages)

\* no sequence of the cache holds a message without text
NoEmptyTextCached ==
    \A scope \in DOMAIN context_cache.entries :
        \A i \in DOMAIN context_cache.entries[scope] :
            Trim(context_cache.entries[scope][i].message.text) # <<>>

\* C32: the step in which the loop takes a new message of a monitored
\* conversation observes it into its scope's sequence before process_message
\* reads the cache, whether the message is the operator's or not and whether
\* it is then dropped, deduped, fails or is edited; a message whose trimmed
\* text is empty changes no sequence, and no sequence ever holds one.
C32_ObservedBeforePipeline ==
    /\ []NoEmptyTextCached
    /\ [][ObservedWhateverTheOutcome /\ PipelineReadsObservedCache]_vars

\* another participant's message was taken and dropped by the pipeline and
\* is cached; then the operator's message without text was taken and is not
C32_Witness ==
    /\ pc = "select"
    /\ Len(trace) = 2
    /\ trace[1].kind = "MonitoredUpdate" /\ ~trace[1].info.outgoing
    /\ trace[2].kind = "MonitoredUpdate" /\ trace[2].info.outgoing
    /\ trace[1].message_id # trace[2].message_id
    /\ hist.handled.message.id = trace[2].message_id
    /\ Trim(hist.handled.message.text) = <<>>
    /\ Ids(ScopeMessages(context_cache, ScopeOf(hist.handled.message)))
           = <<trace[1].message_id>>

(***************************************************************************)
(* Properties of the config watcher.                                       *)
(***************************************************************************)
\* the reload cycles the watcher has begun
CyclesBegun ==
    Len(hist.reloads) + (IF watcher_pc \in {"sleep", "load"} THEN 1 ELSE 0)

\* every cycle was begun by a notification of its own
CyclesWithinNotifications ==
    /\ CyclesBegun <= hist.notified
    /\ Len(hist.reloads) <= hist.notified

FirstDrain == watcher_pc = "recv" /\ watcher_pc' = "sleep"
SecondDrain == watcher_pc = "sleep" /\ watcher_pc' = "load"
ReloadStep == watcher_pc = "load" /\ watcher_pc' = "recv"

\* both drains leave the queue empty, and a cycle reloads the file once,
\* after its second drain
CoalescedIntoOneReload ==
    /\ (FirstDrain \/ SecondDrain) => notify_rx' = 0
    /\ Len(hist'.reloads) =
           Len(hist.reloads) + (IF ReloadStep THEN 1 ELSE 0)
    /\ watcher_pc' # watcher_pc => (FirstDrain \/ SecondDrain \/ ReloadStep)

\* only the two drains take notifications from the queue: one that arrives
\* after the second drain stays queued through the reload
KeptAfterSecondDrain ==
    /\ notify_rx' < notify_rx => (FirstDrain \/ SecondDrain)
    /\ hist'.notified > hist.notified =>
           /\ notify_rx' = notify_rx + 1
           /\ hist'.unloaded

\* when the watcher waits with the queue empty, the file was reloaded after
\* the last notification
IdleWatcherHasReloaded ==
    (watcher_pc = "recv" /\ notify_rx = 0) => ~hist.unloaded

\* C33: the two drains of a reload cycle empty the queue, so the
\* notifications queued before the second drain share the cycle's one
\* reload; only the drains take notifications from the queue, so one that
\* arrives after the second drain is still queued when the task is back at
\* recv() and begins a further cycle; the reloads never outnumber the
\* notifications, and every notification is followed by a reload that
\* begins after it.
C33_DebounceCoalescesAndLosesNothing ==
    /\ [](CyclesWithinNotifications /\ IdleWatcherHasReloaded)
    /\ [][CoalescedIntoOneReload /\ KeptAfterSecondDrain]_vars
    /\ (hist.unloaded ~> ~hist.unloaded)
    /\ ((watcher_pc = "load" /\ notify_rx > 0) ~> (watcher_pc = "sleep"))

\* three notifications and no reload yet: two were taken by the drains of
\* the first cycle, the third arrived after the second drain and is queued
\* while the file is about to be reloaded
C33_Witness ==
    /\ hist.notified = 3
    /\ hist.reloads = <<>>
    /\ watcher_pc = "load"
    /\ notify_rx = 1

\* the callback was given an event or an error in this step
CallbackRan == events_left' = events_left - 1

NotificationQueued == CallbackRan /\ notify_rx' = notify_rx + 1

\* one of the event's paths is the watched path, as written or once
\* canonicalized
NamesWatchedFile(event) ==
    \E i \in DOMAIN event.paths :
        \/ event.paths[i] = WatchedPath
        \/ canonicalize(event.paths[i], Symlinks, ExistingPaths) = Ok(WatchedPath)

\* every create, modify (data, name or generic) and remove kind, and "any"
EveryCreateOrRemoveKind ==
    {kind \in EventKinds :
        \/ kind.class \in {"Create", "Remove", "Any"}
        \/ kind.class = "Modify" /\ kind.detail \in {"Data", "Name", "Any"}}

\* of the create and remove kinds, only those of a file and the generic ones
FileOrGenericKinds ==
    {kind \in EventKinds :
        \/ kind.class \in {"Create", "Remove"} /\ kind.detail \in {"File", "Any"}
        \/ kind.class = "Modify" /\ kind.detail \in {"Data", "Name", "Any"}
        \/ kind.class = "Any"}

QueuedIffKindIn(kinds) ==
    CallbackRan =>
        LET given == Unwrap(hist'.event)
        IN  /\ notify_rx' \in {notify_rx, notify_rx + 1}
            /\ NotificationQueued <=>
                   /\ given # Err
                   /\ given.kind \in kinds
                   /\ NamesWatchedFile(given)

\* C34 as stated: an event queues a notification exactly when its kind is
\* any create kind, modify data, name or generic, any remove kind or "any",
\* and one of its paths is the watched path directly or canonicalized.
C34_NotificationIffAnyCreateModifyRemove ==
    [][QueuedIffKindIn(EveryCreateOrRemoveKind)]_vars

\* C34, amended: an event queues a notification exactly when its kind is
\* create or remove of a file or generic, modify data, name or generic, or
\* "any", and one of its paths is the watched path directly or
\* canonicalized; the creation or removal of a folder or of another kind of
\* entry, a metadata change, an access and an event that names only other
\* files queue nothing.
C34_NotificationIffFileKindAndWatchedPath ==
    [][QueuedIffKindIn(FileOrGenericKinds)]_vars

\* the creation of a file was reported under a path that canonicalizes to
\* the watched one, and a notification is queued
C34_Witness ==
    /\ hist.event = Some([kind |-> EventKind("Create", "File"),
                          paths |-> <<<<"d", ".", "c">>>>])
    /\ hist.notified = 1
    /\ notify_rx = 1

(***************************************************************************)
(* Properties of the historical skip.                                      *)
(***************************************************************************)
\* the message was sent before the runtime started
Historical(message) == message.date < startup_unix

\* some event, call or dedupe entry is about the message id
InPipeline(message_id) ==
    \/ \E i \in DOMAIN trace : trace[i].message_id = message_id
    \/ \E i \in DOMAIN hist.rewrite_calls :
           hist.rewrite_calls[i].message_id = message_id
    \/ \E i \in DOMAIN edit_calls : edit_calls[i].message_id = message_id
    \/ \E key \in DOMAIN dedupe_cache.entries : key[2] = message_id
    \/ \E scope \in DOMAIN hist.fetch_calls :
           message_id \in SeqRange(hist.fetch_calls[scope])
    \/ msg.id = message_id

\* with the skip enabled nothing of the pipeline is ever about the message
\* sent before startup
HistoricalNeverInPipeline ==
    options.skip_historical_catch_up_messages => ~InPipeline(1)

\* the step that takes a historical message with the skip enabled records
\* it in the cache and does nothing else
HistoricalOnlyObserved ==
    (/\ MonitoredMessageTaken
     /\ options.skip_historical_catch_up_messages
     /\ Historical(hist'.handled.message))
    => /\ context_cache' =
              observe_update_message(context_cache,
                                     ScopeOf(hist'.handled.message),
                                     hist'.handled.message)
       /\ Holds(context_cache', hist'.handled.message)
       /\ pc' = "select"
       /\ UNCHANGED <<trace, dedupe_cache, edit_calls, msg>>
       /\ hist'.rewrite_calls = hist.rewrite_calls
       /\ hist'.fetch_calls = hist.fetch_calls

\* every other message of a monitored conversation enters the pipeline:
\* the monitored-update event is emitted for it
OthersEnterPipeline ==
    (/\ MonitoredMessageTaken
     /\ ~(/\ options.skip_historical_catch_up_messages
          /\ Historical(hist'.handled.message)))
    => /\ Len(trace') >= Len(trace) + 1
       /\ trace'[Len(trace) + 1].kind = "MonitoredUpdate"
       /\ trace'[Len(trace) + 1].message_id = hist'.handled.message.id

\* C35: with the skip enabled, a new message of a monitored conversation
\* dated before the startup time is recorded in the context cache and
\* nothing else happens: no monitored-update event, no fetch, no rewrite
\* call, no edit call and no dedupe entry is ever about it; a message dated
\* at or after the startup time, and any message when the skip is disabled,
\* gets its monitored-update event and goes through process_message.
C35_HistoricalSkippedOnlyWhenEarlier ==
    /\ []HistoricalNeverInPipeline
    /\ [][HistoricalOnlyObserved /\ OthersEnterPipeline]_vars

\* with the skip enabled, the message dated at the startup time was edited;
\* the message sent before startup was taken after it and is cached, and
\* no event, call or dedupe entry is about it
C35_Witness ==
    /\ options.skip_historical_catch_up_messages
    /\ pc = "select"
    /\ trace = <<Entry("MonitoredUpdate", 1, 2,
                       [topic_root_id |-> None, outgoing |-> TRUE]),
                 Entry("MessageEdited", 1, 2, <<>>)>>
    /\ hist.handled.message.id = 1
    /\ hist.handled.message.date = startup_unix - 1
    /\ Ids(ScopeMessages(context_cache, ContextScope(1, None))) = <<1>>
    /\ DOMAIN dedupe_cache.entries = {<<1, 2>>}


(***************************************************************************)
(* C36: whenever the loop waits for its next event, the client's monitored *)
(* set is the set of chats of the active policy and the cache's per-scope  *)
(* cap is the active policy's context_messages; startup sets the three     *)
(* from one policy, and a step changes any of them only when it is an      *)
(* accepted reload, which sets all three from the received policy.         *)
(***************************************************************************)
MatchesPolicy(policy, chats, cache) ==
    /\ chats = SeqRange(policy.hot_config.rewrite.chats)
    /\ cache.per_chat_limit = policy.hot_config.rewrite.context_messages

WaitingLoopMatchesActivePolicy ==
    pc = "select" => MatchesPolicy(active, monitored_chats, context_cache)

PolicyStateChanged ==
    \/ active' # active
    \/ monitored_chats' # monitored_chats
    \/ context_cache'.per_chat_limit # context_cache.per_chat_limit

AcceptedReload ==
    /\ pc = "select"
    /\ hot_changed
    /\ Len(hist'.swaps) = Len(hist.swaps) + 1
    /\ hist'.swaps[Len(hist'.swaps)] = [value |-> hot_value, ok |-> TRUE]

ChangedTogetherOnlyByAcceptedReload ==
    PolicyStateChanged =>
        /\ AcceptedReload
        /\ active'.hot_config = hot_value
        /\ MatchesPolicy(active', monitored_chats', context_cache')

RejectedReload ==
    /\ Len(hist'.swaps) = Len(hist.swaps) + 1
    /\ ~hist'.swaps[Len(hist'.swaps)].ok

RejectedReloadChangesNone == RejectedReload => ~PolicyStateChanged

C36_MonitoredSetCapAndPolicyAgree ==
    /\ []WaitingLoopMatchesActivePolicy
    /\ [][ChangedTogetherOnlyByAcceptedReload]_vars
    /\ [][RejectedReloadChangesNone]_vars

C36_Witness ==
    /\ pc = "select"
    /\ Len(hist.swaps) >= 2
    /\ hist.swaps[1].ok
    /\ ~hist.swaps[2].ok
    /\ hist.swaps[2].value # hist.swaps[1].value
    /\ active.hot_config = hist.swaps[1].value
    /\ SeqRange(hist.swaps[1].value.rewrite.chats) # {1, 2}
    /\ monitored_chats = SeqRange(hist.swaps[1].value.rewrite.chats)
    /\ context_cache.per_chat_limit =
           hist.swaps[1].value.rewrite.context_messages
    /\ context_cache.per_chat_limit = MaxLimit


(***************************************************************************)
(* C37: the message being rewritten is observed into the cache before its  *)
(* context is assembled, so the context taken from the cache has at most   *)
(* context_messages - 1 entries when context_messages >= 1 and none when   *)
(* it is 0; with context_messages >= 1 an operator's non-empty, non-deduped*)
(* message taken in a scope that is not yet hydrated always starts a       *)
(* backfill fetch, however many messages the scope had cached.             *)
(***************************************************************************)
ContextDepth == active.hot_config.rewrite.context_messages

\* the ids a scope's sequence holds
CachedIds(cache, scope) ==
    {ScopeMessages(cache, scope)[i].message_id :
         i \in DOMAIN ScopeMessages(cache, scope)}

\* the step takes a message update and carries it to context assembly
ReachesAssembly ==
    /\ MonitoredMessageTaken
    /\ pc' \in {"fetch", "rewrite"}

\* as the claim states it, for every depth
CacheContextBelowDepth ==
    ReachesAssembly => Len(context') <= ContextDepth - 1

CacheContextBelowPositiveDepth ==
    ReachesAssembly =>
        /\ ContextDepth >= 1 => Len(context') <= ContextDepth - 1
        /\ ContextDepth = 0 => context' = <<>>

AssembledMessageIsCached ==
    ReachesAssembly /\ ContextDepth >= 1 =>
        /\ hist'.handled.message.id \in
               CachedIds(context_cache', ScopeOf(hist'.handled.message))
        /\ Len(ScopeMessages(context_cache', ScopeOf(hist'.handled.message)))
               <= ContextDepth

FirstInUnhydratedScope ==
    /\ MonitoredMessageTaken
    /\ ContextDepth >= 1
    /\ hist'.handled.message.outgoing
    /\ Trim(hist'.handled.message.text) # <<>>
    /\ ~DedupeCache_contains(dedupe_cache, hist'.handled.message.chat_id,
                             hist'.handled.message.id, now)
    /\ ScopeOf(hist'.handled.message) \notin context_cache.hydrated_scopes

UnhydratedScopeAlwaysFetches ==
    FirstInUnhydratedScope =>
        /\ pc' = "fetch"
        /\ ScopeOf(hist'.handled.message) \in context_cache'.hydrated_scopes

C37_CacheContextBelowDepthAlways ==
    /\ [][CacheContextBelowDepth]_vars
    /\ [][UnhydratedScopeAlwaysFetches]_vars

C37_CacheContextBelowDepthSoUnhydratedFetches ==
    /\ [][CacheContextBelowPositiveDepth]_vars
    /\ [][AssembledMessageIsCached]_vars
    /\ [][UnhydratedScopeAlwaysFetches]_vars

\* the scope had MaxLimit peer messages cached when the operator's first
\* message arrived: the oldest was evicted and the fetch started
C37_Witness ==
    /\ pc = "fetch"
    /\ ContextDepth = MaxLimit
    /\ msg.id = 3
    /\ msg.outgoing
    /\ Len(context) = MaxLimit - 1
    /\ Len(ScopeMessages(context_cache, ScopeOf(msg))) = MaxLimit
    /\ ScopeMessages(context_cache, ScopeOf(msg))[1].message_id = 2
    /\ ScopeMessages(context_cache, ScopeOf(msg))[MaxLimit].message_id = 3
    /\ updates_left = 0


(***************************************************************************)
(* C38: the context handed to the rewrite step never has more entries than *)
(* the active policy's context_messages, whether it was taken from the     *)
(* cache or from a backfill fetch; under context_messages = 0 the context  *)
(* is empty, no fetch is in progress or started and no scope gets marked   *)
(* hydrated.                                                               *)
(***************************************************************************)
RewriteContextWithinDepth ==
    pc = "rewrite" => Len(context) <= ContextDepth

\* a fetch returns and its result, when it succeeded, is the context
FetchedContextWithinDepth ==
    pc = "fetch" /\ pc' = "rewrite" =>
        /\ IsSome(hist'.fetched)
        /\ Unwrap(hist'.fetched).result.ok =>
               context' = Unwrap(hist'.fetched).result.value
        /\ ~Unwrap(hist'.fetched).result.ok => context' = context
        /\ Len(context') <= ContextDepth

CachedContextWithinDepth ==
    pc = "select" /\ pc' \in {"fetch", "rewrite"} =>
        Len(context') <= ContextDepth

DepthZeroHasNoContext ==
    ContextDepth = 0 => context = <<>> /\ pc # "fetch"

DepthZeroMarksNoScope ==
    ContextDepth = 0 /\ active' = active =>
        /\ context_cache'.hydrated_scopes \subseteq context_cache.hydrated_scopes
        /\ hist'.fetch_calls = hist.fetch_calls

C38_ContextWithinDepthAndNoneAtZero ==
    /\ []RewriteContextWithinDepth
    /\ []DepthZeroHasNoContext
    /\ [][FetchedContextWithinDepth]_vars
    /\ [][CachedContextWithinDepth]_vars
    /\ [][DepthZeroMarksNoScope]_vars

\* a fetch filled the context up to the depth
C38_Witness ==
    /\ pc = "rewrite"
    /\ ContextDepth = MaxLimit
    /\ Len(context) = MaxLimit
    /\ IsSome(hist.fetched)
    /\ Unwrap(hist.fetched).message_id = msg.id
    /\ Unwrap(hist.fetched).result.ok
    /\ Unwrap(hist.fetched).result.value = context
    /\ Len(Unwrap(hist.fetched).cached) < MaxLimit


(***************************************************************************)
(* C39: no configuration update is lost.  Under weak fairness of the       *)
(* watcher task, of the hot-config branch and of the returns of external   *)
(* calls, if from the last notification on the file holds a valid policy P *)
(* and no construction from P fails, then from some point on the active    *)
(* policy is P and the monitored set and the cache's cap are P's, also     *)
(* when reloads before it failed to parse or were rejected at construction.*)
(***************************************************************************)
FileSettledOn(policy) ==
    /\ config_file = Ok(policy)
    /\ events_left = 0

ConstructionSucceeds(policy) ==
    \A i \in DOMAIN hist.swaps :
        hist.swaps[i].value = policy => hist.swaps[i].ok

PolicyApplied(policy) ==
    /\ active.hot_config = policy
    /\ MatchesPolicy(active, monitored_chats, context_cache)
    /\ ~hot_changed

EventuallyApplied(policy) ==
    (<>[]FileSettledOn(policy) /\ []ConstructionSucceeds(policy))
        => <>[]PolicyApplied(policy)

C39_NoLostConfigUpdate ==
    /\ EventuallyApplied(StartupPolicy)
    /\ EventuallyApplied(BackfillConfig(<<1, 2>>, 0))
    /\ EventuallyApplied(BackfillConfig(<<2>>, MaxLimit))

\* a policy rejected at construction, then a save that does not parse, then
\* the policy that is applied in the end
C39_Witness ==
    /\ FileSettledOn(BackfillConfig(<<2>>, MaxLimit))
    /\ PolicyApplied(BackfillConfig(<<2>>, MaxLimit))
    /\ Len(hist.swaps) = 2
    /\ hist.swaps[1] = [value |-> BackfillConfig(<<1, 2>>, 0), ok |-> FALSE]
    /\ hist.swaps[2] = [value |-> BackfillConfig(<<2>>, MaxLimit), ok |-> TRUE]
    /\ \E i \in DOMAIN hist.reloads : ~hist.reloads[i].loaded.ok
    /\ watcher_pc = "recv"
    /\ notify_rx = 0
    /\ pc = "select"


(***************************************************************************)
(* C40: a successful edit leaves the context cache unchanged.  The cache   *)
(* keeps, under the message's id, the text the operator wrote: no step of  *)
(* the pipeline, no message-edited update and no second delivery of the id *)
(* replaces it by the rewritten text, so a later message of the scope gets *)
(* the original text as context.                                           *)
(***************************************************************************)
EditReturned == pc = "edit" /\ pc' = "select"

EditSucceeded ==
    /\ EditReturned
    /\ edit_calls'[Len(edit_calls')].ok

EditLeavesCache == EditReturned => context_cache' = context_cache

OtherUpdateTaken ==
    /\ UpdateTaken
    /\ hist'.handled.kind \in OtherUpdateKinds

OtherUpdateLeavesCache == OtherUpdateTaken => context_cache' = context_cache

\* the entry a scope's sequence holds under an id
CachedUnder(cache, scope, message_id) ==
    LET messages == ScopeMessages(cache, scope)
    IN  messages[CHOOSE i \in DOMAIN messages :
                     messages[i].message_id = message_id].message

CachedTextNeverReplaced ==
    \A scope \in DOMAIN context_cache.entries :
        \A message_id \in CachedIds(context_cache, scope) :
            message_id \in CachedIds(context_cache', scope) =>
                CachedUnder(context_cache', scope, message_id)
                    = CachedUnder(context_cache, scope, message_id)

\* message 1 was first delivered with the text " a" and edited to "c"
FirstMessageRewritten ==
    /\ Len(trace) >= 2
    /\ trace[1].kind = "MonitoredUpdate" /\ trace[1].message_id = 1
    /\ trace[2].kind = "MessageEdited" /\ trace[2].message_id = 1
    /\ hist.rewrite_calls[1].result = Ok(<<"c">>)

LaterMessageGetsOriginal ==
    /\ FirstMessageRewritten
    /\ pc = "rewrite"
    /\ msg.id = 2
    => context = <<ContextMessage(Me, <<"a">>)>>

C40_EditLeavesContextCache ==
    /\ [][EditLeavesCache]_vars
    /\ [][OtherUpdateLeavesCache]_vars
    /\ [][CachedTextNeverReplaced]_vars
    /\ []LaterMessageGetsOriginal

\* message 1 edited to "c", the edit reported by the platform, and message
\* 2 at the rewrite step with the original text of message 1 as context
C40_Witness ==
    /\ FirstMessageRewritten
    /\ \E i \in DOMAIN trace : trace[i].kind = "UnsupportedUpdateIgnored"
                               /\ trace[i].info = "message_edited"
    /\ edit_calls[1].ok
    /\ pc = "rewrite"
    /\ msg.id = 2
    /\ context = <<ContextMessage(Me, <<"a">>)>>
    /\ CachedUnder(context_cache, ScopeOf(msg), 1) = ContextMessage(Me, <<"a">>)

====
